---- MODULE Spec2Model ----
(***************************************************************************)
(* Event-driven lifecycle of langpify's LangpifyBaseAgent                  *)
(* (src/src/langpify/entities/base_agent.py): the sensor registry          *)
(* (on / off / on_any / off_any), synchronous dispatch (emit), the         *)
(* subscription graph (subscribe_to / unsubscribe_from and the forwarding  *)
(* handler _handle_external_event) and the lifecycle (suspend / resume).   *)
(*                                                                         *)
(* One action is one call of a public method, run to completion: emit is   *)
(* synchronous and depth-first, so the whole fan-out of a call, the        *)
(* forwarding into subscribers included, happens inside the action.  The   *)
(* listeners invoked by the most recent call are kept, in call order, in   *)
(* the variable log; that is the observable behaviour of a dispatch.       *)
(***************************************************************************)
EXTENDS Integers, Sequences, FiniteSets

\* Agent ids (aid, base_agent.py:117, unique per agent) of the systems under
\* study: a pair of agents, and three agents for subscription topologies.
TwoAgents == {"a1", "a2"}
ThreeAgents == {"a1", "a2", "a3"}

\* LangpifyStatus (entities.py:59-74).
ACTIVE == "active"
INITIATED == "initiated"
SUSPENDED == "suspended"
WORKING == "working"
DELETED == "deleted"
WAITING == "waiting"
ERROR == "error"
LangpifyStatus == {ACTIVE, INITIATED, SUSPENDED, WORKING, DELETED, WAITING, ERROR}

\* The event type the suspension gate lets through (base_agent.py:286, 382).
STATUS_CHANGED == "status_changed"

\* Event types callers emit and register for: the gate's exempt type and an
\* ordinary one.
EventTypes == {STATUS_CHANGED, "message_sent"}

\* Callables the application registers as listeners.  They return normally
\* and call nothing on the agents.
UserCallbacks == {"f", "g"}

\* A listener is either an application callable or the bound method
\* b._handle_external_event of an agent b.  Python compares bound methods by
\* (__self__, __func__), so every b._handle_external_event is the same list
\* element for `in` and list.remove.
User(name) == [kind |-> "user", id |-> name]
Handler(b) == [kind |-> "handler", id |-> b]

\* Bound of the model: the number of listener registrations (entries of all
\* listener lists of all agents together).
MaxSensors == 3

VARIABLES
    status,             \* self.status                     (base_agent.py:134)
    local_sensors,      \* self._local_sensors             (base_agent.py:184)
    global_sensors,     \* self._global_sensors            (base_agent.py:187)
    subscribed_agents,  \* self._subscribed_agents         (base_agent.py:191)
    log,                \* listeners invoked by the last call, in call order
    raised,             \* whether the last call ended with an exception
    last,               \* the last call: method, receiver, arguments, and
                        \* the receiver's status when it was called
    needs,              \* self.needs: value and last_updated of each need
                        \*                                 (base_agent.py:196-202)
    clock,              \* what time.time() returns
    emitted,            \* events built by emit during the last call, in order
    state               \* self.state, read by adapt and sense
                        \*                                 (base_agent.py:248-263)

vars == <<status, local_sensors, global_sensors, subscribed_agents, log, raised, last,
          needs, clock, emitted, state>>
registry == <<local_sensors, global_sensors, subscribed_agents>>

\* The state of the needs engine and of the clock, with the record of the
\* events built and the attribute read by adapt and sense.  The calls of the registry and lifecycle study leave it alone:
\* its agents have no needs and its events are told apart without timestamps.
engine == <<needs, clock, emitted, state>>

\* The attribute state of an agent that has none: __init__ (base_agent.py:
\* 96-232) assigns no self.state, and no other method of the class does.
Unset == "unset"

\* The agents that have been constructed.
Agents == DOMAIN status

\* Nested _handle_external_event frames after which a dispatch is known to
\* recurse without end: no listener changes any state, so a chain of more
\* handler frames than there are agents repeats an agent with the same event
\* and the same state.  CPython ends that recursion with RecursionError.
MaxDepth == Cardinality(Agents)

\* The value of last when there is no dispatching call to report.
NoCall == [op |-> "none"]

----------------------------------------------------------------------------
\* Helpers on Python lists.

\* `x in lst`
Contains(lst, x) == \E i \in 1..Len(lst) : lst[i] = x

\* lst.remove(x): removes the first occurrence (the callers test `x in lst`).
RECURSIVE ListRemove(_, _)
ListRemove(lst, x) ==
    IF lst = <<>> THEN <<>>
    ELSE IF Head(lst) = x THEN Tail(lst)
    ELSE <<Head(lst)>> \o ListRemove(Tail(lst), x)

RECURSIVE SumLen(_, _)
SumLen(f, dom) ==
    IF dom = {} THEN 0
    ELSE LET k == CHOOSE k \in dom : TRUE
         IN Len(f[k]) + SumLen(f, dom \ {k})

\* Entries of the per-type lists of the agents in dom.
RECURSIVE SumLocal(_)
SumLocal(dom) ==
    IF dom = {} THEN 0
    ELSE LET a == CHOOSE a \in dom : TRUE
         IN SumLen(local_sensors[a], DOMAIN local_sensors[a]) + SumLocal(dom \ {a})

\* Entries of all listener lists together.
TotalSensors == SumLen(global_sensors, Agents) + SumLocal(Agents)

----------------------------------------------------------------------------
\* Events and dispatch.

\* LangpifyEvent as built by emit (base_agent.py:277-282); `data or {}`.
NoData == <<>>
Event(a, event_type, data) == [type |-> event_type, source |-> a, data |-> data]

\* One listener call: the agent whose list held the listener, the listener,
\* the event object it received, and the number of _handle_external_event
\* frames on the stack (0: called by the loops of emit itself).
Call(owner, listener, event, depth) ==
    [agent |-> owner, listener |-> listener, event |-> event, depth |-> depth]

Returned(calls) == [log |-> calls, ok |-> TRUE]
RecursionError == [log |-> <<>>, ok |-> FALSE]

\* Faulty variant of the gate: no exemption for status_changed.
GatedAnyType(st, a, event_type) == st[a] = SUSPENDED

\* Faulty variant of the gate: every status but ACTIVE is gated.
GatedUnlessActive(st, a, event_type) == st[a] # ACTIVE /\ event_type # STATUS_CHANGED

\* The suspension gate, the same test in emit (line 286) and in
\* _handle_external_event (lines 380-383).  st is the agents' status at the
\* time of the test: suspend and resume assign self.status before they emit.
Gated(st, a, event_type) == st[a] = SUSPENDED /\ event_type # STATUS_CHANGED

RECURSIVE HandleExternalEvent(_, _, _, _)
RECURSIVE RunListeners(_, _, _, _, _)

\* listener(event) for one element of a list of agent `owner`.
Invoke(st, owner, listener, event, depth) ==
    LET this == <<Call(owner, listener, event, depth)>>
    IN IF listener.kind = "user"
       THEN Returned(this)
       ELSE LET r == HandleExternalEvent(st, listener.id, event, depth + 1)
            IN [log |-> this \o r.log, ok |-> r.ok]

\* `for listener in lst: listener(event)`; an exception leaves the loop.
RunListeners(st, owner, lst, event, depth) ==
    IF lst = <<>> THEN Returned(<<>>)
    ELSE LET r == Invoke(st, owner, Head(lst), event, depth)
         IN IF ~r.ok THEN r
            ELSE LET rest == RunListeners(st, owner, Tail(lst), event, depth)
                 IN [log |-> r.log \o rest.log, ok |-> rest.ok]

\* Faulty variant of the dispatch: global listeners first.
DispatchGlobalFirst(st, a, event, depth) ==
    LET g == RunListeners(st, a, global_sensors[a], event, depth)
    IN IF ~g.ok THEN g
       ELSE LET r == RunListeners(st, a, local_sensors[a][event.type], event, depth)
            IN [log |-> g.log \o r.log, ok |-> r.ok]

\* The two loops of emit (lines 290-297) and of _handle_external_event
\* (lines 389-396): the listeners of the event's type, then the global ones.
\* A type with no key in _local_sensors behaves as a type with an empty list.
Dispatch(st, a, event, depth) ==
    LET r == RunListeners(st, a, local_sensors[a][event.type], event, depth)
    IN IF ~r.ok THEN r
       ELSE LET g == RunListeners(st, a, global_sensors[a], event, depth)
            IN [log |-> r.log \o g.log, ok |-> g.ok]

\* Faulty variant of the forwarding handler: no test of the event's source.
HandleExternalEventAnySource(st, b, event, depth) ==
    IF depth > MaxDepth THEN RecursionError
    ELSE IF Gated(st, b, event.type) THEN Returned(<<>>)
    ELSE Dispatch(st, b, event, depth)

\* Faulty variant of the forwarding handler: the gate of the source agent.
HandleExternalEventSourceGate(st, b, event, depth) ==
    IF depth > MaxDepth THEN RecursionError
    ELSE IF Gated(st, event.source, event.type) THEN Returned(<<>>)
    ELSE IF event.source \in subscribed_agents[b] THEN Dispatch(st, b, event, depth)
    ELSE Returned(<<>>)

\* Faulty variant of the forwarding handler: events of the agents that the
\* subscribed agents are subscribed to are taken as well.
HandleExternalEventTransitive(st, b, event, depth) ==
    IF depth > MaxDepth THEN RecursionError
    ELSE IF Gated(st, b, event.type) THEN Returned(<<>>)
    ELSE IF \/ event.source \in subscribed_agents[b]
            \/ \E m \in subscribed_agents[b] : event.source \in subscribed_agents[m]
    THEN Dispatch(st, b, event, depth)
    ELSE Returned(<<>>)

\* b._handle_external_event(event)
HandleExternalEvent(st, b, event, depth) ==
    IF depth > MaxDepth THEN RecursionError
    ELSE IF Gated(st, b, event.type) THEN Returned(<<>>)
    ELSE IF event.source \in subscribed_agents[b] THEN Dispatch(st, b, event, depth)
    ELSE Returned(<<>>)

\* Faulty variant of emit: no suspension gate.
EmitResultUngated(st, a, event_type, data) ==
    Dispatch(st, a, Event(a, event_type, data), 0)

\* a.emit(event_type, data)
EmitResult(st, a, event_type, data) ==
    IF Gated(st, a, event_type) THEN Returned(<<>>)
    ELSE Dispatch(st, a, Event(a, event_type, data), 0)

----------------------------------------------------------------------------
\* The agents after construction: empty registries and no subscriptions.
\* a1 is constructed with any status (the constructor's status argument,
\* line 105), the other agents with its default, INITIATED.
Init ==
    /\ status \in [TwoAgents -> LangpifyStatus]
    /\ \A a \in TwoAgents \ {"a1"} : status[a] = INITIATED
    /\ local_sensors = [a \in TwoAgents |-> [t \in EventTypes |-> <<>>]]
    /\ global_sensors = [a \in TwoAgents |-> <<>>]
    /\ subscribed_agents = [a \in TwoAgents |-> {}]
    /\ log = <<>>
    /\ raised = FALSE
    /\ last = NoCall
    /\ needs = [a \in TwoAgents |-> <<>>]
    /\ clock = 0
    /\ emitted = <<>>
    /\ state = [a \in DOMAIN status |-> Unset]

\* A call that dispatches nothing leaves nothing to observe.
Quiet == log' = <<>> /\ raised' = FALSE

\* The application makes its calls one after the other: the next call starts
\* when the result of a dispatching call has been taken note of.
Idle == last = NoCall

\* a.emit(event_type)
Emit(a, event_type) ==
    LET r == EmitResult(status, a, event_type, NoData)
    IN /\ Idle
       /\ log' = r.log
       /\ raised' = ~r.ok
       /\ last' = [op |-> "emit", agent |-> a, type |-> event_type, prev |-> status[a]]
       /\ UNCHANGED <<status, registry, engine>>

\* a.on(event_type, callback)
On(a, event_type, name) ==
    /\ Idle
    /\ TotalSensors < MaxSensors
    /\ local_sensors' = [local_sensors EXCEPT ![a][event_type] = Append(@, User(name))]
    /\ Quiet
    /\ last' = NoCall
    /\ UNCHANGED <<status, global_sensors, subscribed_agents, engine>>

\* Faulty variant of off: list.remove without the membership test, which
\* raises ValueError when the callback is not in the list.
OffUnchecked(a, event_type, name) ==
    /\ Idle
    /\ IF Contains(local_sensors[a][event_type], User(name))
       THEN /\ local_sensors' = [local_sensors EXCEPT ![a][event_type] = ListRemove(@, User(name))]
            /\ raised' = FALSE
       ELSE /\ local_sensors' = local_sensors
            /\ raised' = TRUE
    /\ log' = <<>>
    /\ last' = NoCall
    /\ UNCHANGED <<status, global_sensors, subscribed_agents, engine>>

\* a.off(event_type, callback)
Off(a, event_type, name) ==
    /\ Idle
    /\ local_sensors' =
          IF Contains(local_sensors[a][event_type], User(name))
          THEN [local_sensors EXCEPT ![a][event_type] = ListRemove(@, User(name))]
          ELSE local_sensors
    /\ Quiet
    /\ last' = NoCall
    /\ UNCHANGED <<status, global_sensors, subscribed_agents, engine>>

\* a._global_sensors.append(listener)
OnAnyList(a, listener) == [global_sensors EXCEPT ![a] = Append(@, listener)]

\* `if listener in a._global_sensors: a._global_sensors.remove(listener)`
OffAnyList(a, listener) ==
    IF Contains(global_sensors[a], listener)
    THEN [global_sensors EXCEPT ![a] = ListRemove(@, listener)]
    ELSE global_sensors

\* a.on_any(callback)
OnAny(a, name) ==
    /\ Idle
    /\ TotalSensors < MaxSensors
    /\ global_sensors' = OnAnyList(a, User(name))
    /\ Quiet
    /\ last' = NoCall
    /\ UNCHANGED <<status, local_sensors, subscribed_agents, engine>>

\* a.off_any(callback)
OffAny(a, name) ==
    /\ Idle
    /\ global_sensors' = OffAnyList(a, User(name))
    /\ Quiet
    /\ last' = NoCall
    /\ UNCHANGED <<status, local_sensors, subscribed_agents, engine>>

\* b.subscribe_to(a)
SubscribeTo(b, a) ==
    /\ Idle
    /\ TotalSensors < MaxSensors
    /\ subscribed_agents' = [subscribed_agents EXCEPT ![b] = @ \cup {a}]
    /\ global_sensors' = OnAnyList(a, Handler(b))
    /\ Quiet
    /\ last' = NoCall
    /\ UNCHANGED <<status, local_sensors, engine>>

\* Faulty variant of unsubscribe_from: forgets every subscription of b.
UnsubscribeFromAll(b, a, note) ==
    /\ Idle
    /\ IF a \in subscribed_agents[b]
       THEN /\ subscribed_agents' = [subscribed_agents EXCEPT ![b] = {}]
            /\ global_sensors' = OffAnyList(a, Handler(b))
       ELSE UNCHANGED <<subscribed_agents, global_sensors>>
    /\ Quiet
    /\ last' = note
    /\ UNCHANGED <<status, local_sensors, engine>>

\* Faulty variant of unsubscribe_from: the id is removed from the set without
\* the membership test, and set.remove raises KeyError for an absent id.
UnsubscribeFromUnchecked(b, a, note) ==
    /\ Idle
    /\ IF a \in subscribed_agents[b]
       THEN /\ subscribed_agents' = [subscribed_agents EXCEPT ![b] = @ \ {a}]
            /\ global_sensors' = OffAnyList(a, Handler(b))
            /\ raised' = FALSE
       ELSE /\ UNCHANGED <<subscribed_agents, global_sensors>>
            /\ raised' = TRUE
    /\ log' = <<>>
    /\ last' = note
    /\ UNCHANGED <<status, local_sensors, engine>>

\* b.unsubscribe_from(a); note is what the call leaves in last.
UnsubscribeFromNoting(b, a, note) ==
    /\ Idle
    /\ IF a \in subscribed_agents[b]
       THEN /\ subscribed_agents' = [subscribed_agents EXCEPT ![b] = @ \ {a}]
            /\ global_sensors' = OffAnyList(a, Handler(b))
       ELSE UNCHANGED <<subscribed_agents, global_sensors>>
    /\ Quiet
    /\ last' = note
    /\ UNCHANGED <<status, local_sensors, engine>>

\* b.unsubscribe_from(a)
UnsubscribeFrom(b, a) == UnsubscribeFromNoting(b, a, NoCall)

\* The data of the status_changed event of suspend and resume.
StatusData(previous, current) == [previous_status |-> previous, current_status |-> current]

\* Faulty variant of suspend: previous_status read after the assignment.
SuspendLatePrevious(a) ==
    LET now == [status EXCEPT ![a] = SUSPENDED]
        previous_status == now[a]
        r == EmitResult(now, a, STATUS_CHANGED, StatusData(previous_status, now[a]))
    IN /\ Idle
       /\ status' = now
       /\ log' = r.log
       /\ raised' = ~r.ok
       /\ last' = [op |-> "suspend", agent |-> a, type |-> STATUS_CHANGED, prev |-> status[a]]
       /\ UNCHANGED <<registry, engine>>

\* a.suspend()
Suspend(a) ==
    LET previous_status == status[a]
        now == [status EXCEPT ![a] = SUSPENDED]
        r == EmitResult(now, a, STATUS_CHANGED, StatusData(previous_status, now[a]))
    IN /\ Idle
       /\ status' = now
       /\ log' = r.log
       /\ raised' = ~r.ok
       /\ last' = [op |-> "suspend", agent |-> a, type |-> STATUS_CHANGED, prev |-> status[a]]
       /\ UNCHANGED <<registry, engine>>

ResumeWith(a, allowed) ==
    /\ Idle
    /\ last' = [op |-> "resume", agent |-> a, type |-> STATUS_CHANGED, prev |-> status[a]]
    /\ UNCHANGED <<registry, engine>>
    /\ IF status[a] \notin allowed
       THEN Quiet /\ UNCHANGED status
       ELSE LET previous_status == status[a]
                now == [status EXCEPT ![a] = ACTIVE]
                r == EmitResult(now, a, STATUS_CHANGED, StatusData(previous_status, now[a]))
            IN /\ status' = now
               /\ log' = r.log
               /\ raised' = ~r.ok

\* Faulty variant of resume: an INITIATED agent is not activated.
ResumeFromSuspendedOnly(a) == ResumeWith(a, {SUSPENDED})

\* Faulty variant of resume: no test of the current status.
ResumeFromAnyStatus(a) == ResumeWith(a, LangpifyStatus)

\* a.resume()
Resume(a) == ResumeWith(a, {SUSPENDED, INITIATED})

\* The caller has taken note of what the last dispatching call did.
CallReturns ==
    /\ ~Idle
    /\ last' = NoCall
    /\ Quiet
    /\ emitted' = <<>>
    /\ UNCHANGED <<status, registry, needs, clock, state>>

Next ==
    \/ \E a \in Agents, t \in EventTypes : Emit(a, t)
    \/ \E a \in Agents, t \in EventTypes, n \in UserCallbacks : On(a, t, n)
    \/ \E a \in Agents, t \in EventTypes, n \in UserCallbacks : Off(a, t, n)
    \/ \E a \in Agents, n \in UserCallbacks : OnAny(a, n)
    \/ \E a \in Agents, n \in UserCallbacks : OffAny(a, n)
    \/ \E b \in Agents, a \in Agents : SubscribeTo(b, a)
    \/ \E b \in Agents, a \in Agents : UnsubscribeFrom(b, a)
    \/ \E a \in Agents : Suspend(a)
    \/ \E a \in Agents : Resume(a)
    \/ CallReturns

Spec == Init /\ [][Next]_vars

----------------------------------------------------------------------------
\* Subscription topologies: three agents in the constructor's default status,
\* with listeners for an ordinary event type.

\* The ordinary event type of the topologies.
MESSAGE_SENT == "message_sent"

InitTopology ==
    /\ status = [a \in ThreeAgents |-> INITIATED]
    /\ local_sensors = [a \in ThreeAgents |-> [t \in EventTypes |-> <<>>]]
    /\ global_sensors = [a \in ThreeAgents |-> <<>>]
    /\ subscribed_agents = [a \in ThreeAgents |-> {}]
    /\ log = <<>>
    /\ raised = FALSE
    /\ last = NoCall
    /\ needs = [a \in ThreeAgents |-> <<>>]
    /\ clock = 0
    /\ emitted = <<>>
    /\ state = [a \in DOMAIN status |-> Unset]

\* What b.unsubscribe_from(a) leaves in last: the call and the set b was
\* subscribed to when it was made.
Unsubscribed(b, a) ==
    [op |-> "unsubscribe_from", agent |-> b, from |-> a, had |-> subscribed_agents[b]]

NextTopology ==
    \/ \E b \in Agents, a \in Agents : SubscribeTo(b, a)
    \/ \E b \in Agents, a \in Agents : UnsubscribeFromNoting(b, a, Unsubscribed(b, a))
    \/ \E a \in Agents, n \in UserCallbacks : On(a, MESSAGE_SENT, n)
    \/ \E a \in Agents : Emit(a, MESSAGE_SENT)
    \/ CallReturns

SpecTopology == InitTopology /\ [][NextTopology]_vars

----------------------------------------------------------------------------
\* Subscription graphs of three agents: every agent subscribes to every
\* agent, itself included, at most once, and registers the callable f for
\* message_sent at most once; nothing is unsubscribed.  The graph bounds the
\* registrations: at most three forwarding handlers in a global list.

\* b.subscribe_to(a), the first time.
SubscribeFirst(b, a) ==
    /\ Idle
    /\ a \notin subscribed_agents[b]
    /\ subscribed_agents' = [subscribed_agents EXCEPT ![b] = @ \cup {a}]
    /\ global_sensors' = OnAnyList(a, Handler(b))
    /\ Quiet
    /\ last' = NoCall
    /\ UNCHANGED <<status, local_sensors, engine>>

\* a.on(event_type, f), the first time.
OnFirst(a, event_type) ==
    /\ Idle
    /\ local_sensors[a][event_type] = <<>>
    /\ local_sensors' = [local_sensors EXCEPT ![a][event_type] = Append(@, User("f"))]
    /\ Quiet
    /\ last' = NoCall
    /\ UNCHANGED <<status, global_sensors, subscribed_agents, engine>>

NextGraph ==
    \/ \E b \in Agents, a \in Agents : SubscribeFirst(b, a)
    \/ \E a \in Agents : OnFirst(a, MESSAGE_SENT)
    \/ \E a \in Agents : Emit(a, MESSAGE_SENT)
    \/ CallReturns

SpecGraph == InitTopology /\ [][NextGraph]_vars

----------------------------------------------------------------------------
\* Needs (entities.py:87-179).  Need values are Python floats; the model
\* computes in fixed point, in tenths: Unit stands for 1.0, and a quotient or
\* a square root is rounded down to a tenth.  Time is counted in ticks of
\* the clock, and a decay rate is in tenths per tick.

Unit == 10

\* Field defaults of LangpifyNeed (entities.py:105-110) and the decay rate
\* the needs are constructed with (0.5 per tick).
DefaultValue == 5
DefaultSatiationRate == 3
DefaultMinValue == 0
DefaultMaxValue == 10
DecayRate == 5

GENERIC_SATISFACTION == "generic_satisfaction"
PRAISE == "praise"

\* LangpifyNeed(name=..., satiation_event_type=...), last_updated as the
\* constructor of the agent sets it (base_agent.py:199-202).
Need(name, satiation_event_type, now) ==
    [name |-> name, value |-> DefaultValue, decay_rate |-> DecayRate,
     satiation_rate |-> DefaultSatiationRate,
     satiation_event_type |-> satiation_event_type,
     min_value |-> DefaultMinValue, max_value |-> DefaultMaxValue,
     last_updated |-> now]

\* max(x, y) and min(x, y) of Python.
Max(x, y) == IF x >= y THEN x ELSE y
Min(x, y) == IF x <= y THEN x ELSE y

\* need.decay(elapsed_seconds)
Decay(need, elapsed_seconds) ==
    LET decayed_value == need.value - (need.decay_rate * elapsed_seconds)
    IN [need EXCEPT !.value = Max(need.min_value, decayed_value)]

\* The largest r with r * r <= n.
Isqrt(n) == CHOOSE r \in 0..n : r * r <= n /\ (r + 1) * (r + 1) > n

\* An Optional[float] argument: None, or a number.
None == <<>>
Some(x) == <<x>>

\* need.satiate(satiation_amount) raises: a value above max_value makes
\* remaining_capacity negative, the power a complex number, and min() of a
\* float and a complex number a TypeError.
SatiateRaises(need) == need.max_value - need.value < 0

\* need.satiate(satiation_amount), when it does not raise.
Satiate(need, satiation_amount) ==
    LET amount == IF satiation_amount = None THEN need.satiation_rate
                  ELSE satiation_amount[1]
        remaining_capacity == need.max_value - need.value
        root == Isqrt((remaining_capacity * Unit * Unit) \div need.max_value)
        effective_satiation == (amount * root) \div Unit
        new_value == need.value + effective_satiation
    IN [need EXCEPT !.value = Min(need.max_value, new_value)]

\* Faulty variant of get_urgency_level: the boundaries belong to the band
\* below them.
UrgencyUpperInclusive(need) ==
    IF need.value * 10 <= 2 * Unit THEN "critical"
    ELSE IF need.value * 10 <= 4 * Unit THEN "high"
    ELSE IF need.value * 10 <= 6 * Unit THEN "medium"
    ELSE IF need.value * 10 <= 8 * Unit THEN "low"
    ELSE "satisfied"

\* need.get_urgency_level(): value < 0.2, < 0.4, < 0.6, < 0.8, else.
GetUrgencyLevel(need) ==
    IF need.value * 10 < 2 * Unit THEN "critical"
    ELSE IF need.value * 10 < 4 * Unit THEN "high"
    ELSE IF need.value * 10 < 6 * Unit THEN "medium"
    ELSE IF need.value * 10 < 8 * Unit THEN "low"
    ELSE "satisfied"

\* int(x / y) of Python: the quotient truncated toward zero.
Trunc(x, y) == IF x >= 0 THEN x \div y ELSE 0 - ((0 - x) \div y)

\* need.to_context_string(): "<name>: <int(value * 100)>% satisfied
\* (urgency: <level>)", kept as its three variable parts.
ToContextString(need) ==
    [name |-> need.name, percentage |-> Trunc(need.value * 100, Unit),
     urgency |-> GetUrgencyLevel(need)]

----------------------------------------------------------------------------
\* Calls that change the agents while they run.  The listeners of the
\* registry and lifecycle study return at once; the operators below follow a
\* call through listeners that raise, that call back into an agent, and
\* through the needs engine, carrying the state of the program (a world)
\* from one statement to the next.

\* Bound of the model: the last tick of the clock that is explored; time
\* that passes later is not seen by time.time().
MaxClock == 1

\* Event types of the needs engine (base_agent.py:421, 450) and the type
\* emitted by the callable relay.
NEEDS_UPDATED == "needs_updated"
NEED_SATISFIED == "need_satisfied"
RELAYED == "relayed"

\* Callables of the application, by name, besides f and g, which return at
\* once:
\*   def boom(event): raise RuntimeError()
\*   def relay(event): a1.emit("relayed")
\*   def refresh(event):
\*       if event["data"].get("need_name") == "n1": a1.update_needs()
\*   def once(event): agent.off(event["type"], once)
\*   def join(event):
\*       if g not in agent._local_sensors[event["type"]]: agent.on(event["type"], g)
\*   def probe(event): seen.append(agents[event["source"]].status)
\* with agent the agent whose list holds the callable.
\* relay, and refresh when it calls update_needs, take time: a tick of the
\* clock passes before their call.
BOOM == "boom"
RELAY == "relay"
REFRESH == "refresh"
ONCE == "once"
JOIN == "join"
PROBE == "probe"
RelayAgent == "a1"
RefreshAgent == "a1"
RefreshNeed == "n1"

\* What a call has returned before it returns: nothing.
NoResult == <<>>

\* The state of the program at the start of a call, with nothing observed
\* yet.  objects holds the event dicts built by the emits of the call, as
\* they are now: emit and the forwarding handlers pass one and the same dict
\* to every listener.  The callables above do not write to it.  stamps holds
\* the assignments to need.last_updated made during the call, in order, and
\* seen what probe has read.
World ==
    [status |-> status, local_sensors |-> local_sensors,
     global_sensors |-> global_sensors, subscribed_agents |-> subscribed_agents,
     needs |-> needs, clock |-> clock, state |-> state, objects |-> <<>>,
     stamps |-> <<>>, seen |-> <<>>,
     log |-> <<>>, emitted |-> <<>>, ok |-> TRUE, result |-> NoResult]

\* An exception leaves the statement; ok = FALSE is carried to the caller.
Raise(w) == [w EXCEPT !.ok = FALSE]

\* Time passes, as far as the clock is explored.
Advance(w) == [w EXCEPT !.clock = IF @ < MaxClock THEN @ + 1 ELSE @]

\* One listener call, as Call, with the emit that built the event (its
\* position in emitted) and the event as it is when the listener is called.
\* depth counts the _handle_external_event frames between that emit and the
\* call.
CallW(owner, listener, event, depth, origin) ==
    [agent |-> owner, listener |-> listener, event |-> event, depth |-> depth,
     origin |-> origin]

\* self._local_sensors[event_type] under the test `event_type in
\* self._local_sensors` (lines 291, 390).
LocalList(w, a, event_type) ==
    IF event_type \in DOMAIN w.local_sensors[a] THEN w.local_sensors[a][event_type]
    ELSE <<>>

\* The list a loop of emit or _handle_external_event runs over.
ListOf(w, a, which, event_type) ==
    IF which = "local" THEN LocalList(w, a, event_type) ELSE w.global_sensors[a]

\* event["data"].get("need_name") == name
HasNeedName(event, name) ==
    "need_name" \in DOMAIN event.data /\ event.data.need_name = name

\* {need_name: need.value} of a needs mapping.
ValuesOf(ns) ==
    [n \in {ns[i].name : i \in DOMAIN ns} |->
        ns[CHOOSE i \in DOMAIN ns : ns[i].name = n].value]

RECURSIVE EmitW(_, _, _, _, _, _)
RECURSIVE DispatchW(_, _, _, _, _, _)
RECURSIVE RunListW(_, _, _, _, _, _, _, _)
RECURSIVE InvokeW(_, _, _, _, _, _)
RECURSIVE HandleExternalEventW(_, _, _, _, _)
RECURSIVE UpdateNeedsW(_, _, _, _)
RECURSIVE ProcessLoopW(_, _, _, _, _, _, _, _, _)

\* listener(event) for a listener of agent `owner`; the event is the dict
\* built by the emit at position origin.  stack holds the listener calls that
\* have not returned, each as (owner, listener, event type, event source).
\* What a listener goes on to call depends on these four and on the registry
\* and the statuses, which no listener changes while it has a call below it
\* (once and join return without calling a listener), so a call that is
\* already on the stack recurs without end; CPython ends it with
\* RecursionError.
InvokeW(w, owner, listener, origin, depth, stack) ==
    LET event == w.objects[origin]
        key == <<owner, listener, event.type, event.source>>
        w1 == [w EXCEPT !.log = Append(@, CallW(owner, listener, event, depth, origin))]
        me == Len(w1.log)
        inner == stack \cup {key}
    IN IF key \in stack THEN Raise(w1)
       ELSE IF listener.kind = "handler"
       THEN HandleExternalEventW(w1, listener.id, origin, depth + 1, inner)
       ELSE IF listener.id = BOOM THEN Raise(w1)
       ELSE IF listener.id = RELAY
       THEN EmitW(Advance(w1), RelayAgent, RELAYED, NoData, me, inner)
       ELSE IF listener.id = REFRESH /\ HasNeedName(event, RefreshNeed)
       THEN UpdateNeedsW(Advance(w1), RefreshAgent, me, inner)
       ELSE IF listener.id = ONCE /\ Contains(LocalList(w1, owner, event.type), listener)
       THEN [w1 EXCEPT !.local_sensors[owner][event.type] = ListRemove(@, listener)]
       ELSE IF listener.id = JOIN /\ ~Contains(LocalList(w1, owner, event.type), User("g"))
       THEN [w1 EXCEPT !.local_sensors[owner][event.type] = Append(@, User("g"))]
       ELSE IF listener.id = PROBE
       THEN [w1 EXCEPT !.seen = Append(@, [call |-> me, agent |-> event.source,
                                            status |-> w1.status[event.source]])]
       ELSE w1

\* Faulty variant of the listener loops: an exception of a listener is caught
\* and the loop goes on.
RunListCatching(w, a, which, event_type, origin, depth, stack, i) ==
    LET lst == ListOf(w, a, which, event_type)
    IN IF i > Len(lst) THEN w
       ELSE LET w1 == InvokeW(w, a, lst[i], origin, depth, stack)
            IN RunListW([w1 EXCEPT !.ok = TRUE], a, which, event_type, origin, depth,
                        stack, i + 1)

\* `for listener in lst: listener(event)` from element i on (lines 292-293,
\* 296-297, 391-392, 395-396); lst is the list of event_type or the global
\* list.  An exception leaves the loop.
RunListW(w, a, which, event_type, origin, depth, stack, i) ==
    LET lst == ListOf(w, a, which, event_type)
    IN IF i > Len(lst) THEN w
       ELSE LET w1 == InvokeW(w, a, lst[i], origin, depth, stack)
            IN IF ~w1.ok THEN w1
               ELSE RunListW(w1, a, which, event_type, origin, depth, stack, i + 1)

\* The two loops of emit (lines 290-297) and of _handle_external_event
\* (lines 389-396); event_type is the argument of emit, or event["type"]
\* when the handler reaches its loops.
DispatchW(w, a, event_type, origin, depth, stack) ==
    LET w1 == RunListW(w, a, "local", event_type, origin, depth, stack, 1)
    IN IF ~w1.ok THEN w1
       ELSE RunListW(w1, a, "global", event_type, origin, depth, stack, 1)

\* Faulty variant of the forwarding handler: the event is stamped again, with
\* the subscriber's id and the time of forwarding.
HandleExternalEventRestamping(w, b, origin, depth, stack) ==
    LET event == w.objects[origin]
        stamped == [w EXCEPT !.objects[origin].source = b,
                             !.objects[origin].timestamp = w.clock]
    IN IF Gated(w.status, b, event.type) THEN w
       ELSE IF event.source \in w.subscribed_agents[b]
       THEN DispatchW(stamped, b, event.type, origin, depth, stack)
       ELSE w

\* b._handle_external_event(event)
HandleExternalEventW(w, b, origin, depth, stack) ==
    LET event == w.objects[origin]
    IN IF Gated(w.status, b, event.type) THEN w
       ELSE IF event.source \in w.subscribed_agents[b]
       THEN DispatchW(w, b, event.type, origin, depth, stack)
       ELSE w

\* LangpifyEvent as built by emit (lines 277-282).
EventAt(a, event_type, data, timestamp) ==
    [type |-> event_type, source |-> a, timestamp |-> timestamp, data |-> data]

\* What emitted keeps of one emit: the agent it was called on, the time, the
\* listener call that made it (its position in log; 0: the application) and
\* the event it built.
Emission(a, at, by, event) == [agent |-> a, at |-> at, by |-> by, event |-> event]

\* emit up to its gate: the event is built.
Built(w, a, event_type, data, by) ==
    LET event == EventAt(a, event_type, data, w.clock)
    IN [w EXCEPT !.emitted = Append(@, Emission(a, w.clock, by, event)),
                 !.objects = Append(@, event)]

\* Faulty variant of emit: an emit made by a listener is put aside instead
\* of being dispatched before the listener returns.
EmitQueueing(w, a, event_type, data, by, stack) ==
    LET w1 == Built(w, a, event_type, data, by)
    IN IF Gated(w1.status, a, event_type) \/ by # 0 THEN w1
       ELSE DispatchW(w1, a, event_type, Len(w1.emitted), 0, stack)

\* Faulty variant of emit: the suspension gate is left to the forwarding
\* handlers of the subscribers.
EmitUngated(w, a, event_type, data, by, stack) ==
    LET w1 == Built(w, a, event_type, data, by)
    IN DispatchW(w1, a, event_type, Len(w1.emitted), 0, stack)

\* a.emit(event_type, data), called by listener call `by`.
EmitW(w, a, event_type, data, by, stack) ==
    LET w1 == Built(w, a, event_type, data, by)
    IN IF Gated(w1.status, a, event_type) THEN w1
       ELSE DispatchW(w1, a, event_type, Len(w1.emitted), 0, stack)

\* Faulty variant of the loop of update_needs: last_updated is not set.
UpdatedUnstamped(need, current_time) ==
    LET elapsed == current_time - need.last_updated
    IN IF elapsed > 0 THEN Decay(need, elapsed) ELSE need

\* The loop of update_needs (lines 412-417) on one need.
Updated(need, current_time) ==
    LET elapsed == current_time - need.last_updated
    IN IF elapsed > 0
       THEN [Decay(need, elapsed) EXCEPT !.last_updated = current_time]
       ELSE need

\* need.last_updated = current_time, on the need of that name of agent a
\* whose last_updated was `was`.
Stamp(a, need, current_time) ==
    [agent |-> a, need |-> need.name, was |-> need.last_updated, at |-> current_time]

\* The assignments of line 416 made by one run of the loop of update_needs.
StampsOf(a, ns, current_time) ==
    SelectSeq([i \in 1..Len(ns) |-> Stamp(a, ns[i], current_time)],
              LAMBDA s : s.at - s.was > 0)

\* Faulty variant of update_needs: needs_updated only when a need changed.
UpdateNeedsOnChange(w, a, by, stack) ==
    LET current_time == w.clock
        updated == [i \in 1..Len(w.needs[a]) |-> Updated(w.needs[a][i], current_time)]
        updated_values == ValuesOf(updated)
        w1 == [w EXCEPT !.needs[a] = updated,
                        !.stamps = @ \o StampsOf(a, w.needs[a], current_time)]
        w2 == IF updated # w.needs[a]
              THEN EmitW(w1, a, NEEDS_UPDATED, [needs |-> updated_values], by, stack)
              ELSE w1
    IN [w2 EXCEPT !.result = updated_values]

\* Faulty variant of update_needs: a suspended agent's needs are left as
\* they are.
UpdateNeedsGated(w, a, by, stack) ==
    LET current_time == w.clock
        updated == [i \in 1..Len(w.needs[a]) |-> Updated(w.needs[a][i], current_time)]
        updated_values == ValuesOf(updated)
        w1 == [w EXCEPT !.needs[a] = updated,
                        !.stamps = @ \o StampsOf(a, w.needs[a], current_time)]
    IN IF w.status[a] = SUSPENDED THEN [w EXCEPT !.result = ValuesOf(w.needs[a])]
       ELSE IF updated # <<>>
       THEN [EmitW(w1, a, NEEDS_UPDATED, [needs |-> updated_values], by, stack)
                EXCEPT !.result = updated_values]
       ELSE [w1 EXCEPT !.result = updated_values]

\* a.update_needs()
UpdateNeedsW(w, a, by, stack) ==
    LET current_time == w.clock
        updated == [i \in 1..Len(w.needs[a]) |-> Updated(w.needs[a][i], current_time)]
        updated_values == ValuesOf(updated)
        w1 == [w EXCEPT !.needs[a] = updated,
                        !.stamps = @ \o StampsOf(a, w.needs[a], current_time)]
        w2 == IF updated # <<>>
              THEN EmitW(w1, a, NEEDS_UPDATED, [needs |-> updated_values], by, stack)
              ELSE w1
    IN [w2 EXCEPT !.result = updated_values]

\* Faulty variant of the data of need_satisfied: old_value is read after
\* satiate.
SatisfiedDataStale(need_name, old_value, new_value, event_type) ==
    [need_name |-> need_name, old_value |-> new_value, new_value |-> new_value,
     event_type |-> event_type]

\* The data of a need_satisfied event (lines 450-455).
SatisfiedData(need_name, old_value, new_value, event_type) ==
    [need_name |-> need_name, old_value |-> old_value, new_value |-> new_value,
     event_type |-> event_type]

\* satisfied_needs[need_name] = new_value
Put(mapping, key, value) ==
    [k \in DOMAIN mapping \cup {key} |-> IF k = key THEN value ELSE mapping[k]]

\* Faulty variant of the test of the loop: every need is satiated.
MatchesAny(need, event_type) == TRUE

\* need.satiation_event_type == event_type (line 443)
Matches(need, event_type) == need.satiation_event_type = event_type

\* The loop of process_need_satisfaction (lines 442-455) from need i on;
\* current_time was read before the loop (line 440).
ProcessLoopW(w, a, event_type, satiation_amount, current_time, i, satisfied_needs, by, stack) ==
    IF i > Len(w.needs[a]) THEN [w EXCEPT !.result = satisfied_needs]
    ELSE LET need == w.needs[a][i]
         IN IF ~Matches(need, event_type)
            THEN ProcessLoopW(w, a, event_type, satiation_amount, current_time, i + 1,
                              satisfied_needs, by, stack)
            ELSE IF SatiateRaises(need) THEN Raise(w)
            ELSE LET old_value == need.value
                     sated == Satiate(need, satiation_amount)
                     new_value == sated.value
                     w1 == [w EXCEPT !.needs[a][i] =
                               [sated EXCEPT !.last_updated = current_time],
                                     !.stamps = Append(@, Stamp(a, need, current_time))]
                     w2 == EmitW(w1, a, NEED_SATISFIED,
                                 SatisfiedData(need.name, old_value, new_value, event_type),
                                 by, stack)
                 IN IF ~w2.ok THEN w2
                    ELSE ProcessLoopW(w2, a, event_type, satiation_amount, current_time,
                                      i + 1, Put(satisfied_needs, need.name, new_value),
                                      by, stack)

\* a.process_need_satisfaction(event_type, satiation_amount)
ProcessNeedSatisfactionW(w, a, event_type, satiation_amount, by, stack) ==
    ProcessLoopW(w, a, event_type, satiation_amount, w.clock, 1, <<>>, by, stack)

\* The two literals of get_needs_context (lines 470, 475).
NO_ACTIVE_NEEDS == "No active needs."
CURRENT_INTERNAL_NEEDS == "Current Internal Needs:"

\* The lines get_needs_context joins: the heading and one line per need (the
\* needs of the model have no description).
ContextLines(ns) ==
    <<CURRENT_INTERNAL_NEEDS>> \o [i \in 1..Len(ns) |-> ToContextString(ns[i])]

\* Faulty variant of get_needs_context: the needs are rendered as they are,
\* without update_needs.
GetNeedsContextStale(w, a, by, stack) ==
    IF w.needs[a] = <<>> THEN [w EXCEPT !.result = NO_ACTIVE_NEEDS]
    ELSE [w EXCEPT !.result = ContextLines(w.needs[a])]

\* a.get_needs_context()
GetNeedsContextW(w, a, by, stack) ==
    IF w.needs[a] = <<>> THEN [w EXCEPT !.result = NO_ACTIVE_NEEDS]
    ELSE LET w1 == UpdateNeedsW(w, a, by, stack)
         IN IF ~w1.ok THEN w1
            ELSE [w1 EXCEPT !.result = ContextLines(w1.needs[a])]

\* Faulty variant of suspend: the agent's listeners for event types are
\* dropped with the suspension.
SuspendForgetting(w, a, by, stack) ==
    LET previous_status == w.status[a]
        w1 == [w EXCEPT !.status[a] = SUSPENDED,
                        !.local_sensors[a] = [t \in DOMAIN w.local_sensors[a] |-> <<>>]]
    IN EmitW(w1, a, STATUS_CHANGED, StatusData(previous_status, w1.status[a]), by, stack)

\* Faulty variant of suspend: status_changed is dispatched before the status
\* is assigned.
SuspendLateCommit(w, a, by, stack) ==
    LET previous_status == w.status[a]
        w1 == EmitW(w, a, STATUS_CHANGED, StatusData(previous_status, SUSPENDED), by, stack)
    IN IF w1.ok THEN [w1 EXCEPT !.status[a] = SUSPENDED] ELSE w1

\* a.suspend()
SuspendW(w, a, by, stack) ==
    LET previous_status == w.status[a]
        w1 == [w EXCEPT !.status[a] = SUSPENDED]
    IN EmitW(w1, a, STATUS_CHANGED, StatusData(previous_status, w1.status[a]), by, stack)

\* Faulty variant of resume: no test of the current status.
ResumeUnconditional(w, a, by, stack) ==
    LET previous_status == w.status[a]
        w1 == [w EXCEPT !.status[a] = ACTIVE]
    IN EmitW(w1, a, STATUS_CHANGED, StatusData(previous_status, w1.status[a]), by, stack)

\* Faulty variant of resume: an event that was built before the agent was
\* resumed is dispatched again once the status is ACTIVE.
ResumeFlushing(w, a, by, stack) ==
    IF w.status[a] \notin {SUSPENDED, INITIATED} THEN w
    ELSE LET previous_status == w.status[a]
             w1 == [w EXCEPT !.status[a] = ACTIVE]
             w2 == EmitW(w1, a, STATUS_CHANGED, StatusData(previous_status, w1.status[a]),
                         by, stack)
         IN IF w2.ok /\ w.objects # <<>> /\ w.objects[1].source = a
            THEN DispatchW(w2, a, w.objects[1].type, 1, 0, stack)
            ELSE w2

\* a.resume()
ResumeW(w, a, by, stack) ==
    IF w.status[a] \notin {SUSPENDED, INITIATED} THEN w
    ELSE LET previous_status == w.status[a]
             w1 == [w EXCEPT !.status[a] = ACTIVE]
         IN EmitW(w1, a, STATUS_CHANGED, StatusData(previous_status, w1.status[a]),
                  by, stack)

\* Keys and values of the calls of adapt and sense; NONE is None, the value
\* dict.get gives for a key that is not held.
STATE_CHANGED == "state_changed"
NONE == "None"
StateKeys == {"mood", "topic"}
StateValues == {"calm", NONE}

\* The data of the state_changed event of adapt.
StateData(key, value, previous_value) ==
    [key |-> key, value |-> value, previous_value |-> previous_value]

\* a.adapt(key, value): reading self.state raises AttributeError when the
\* attribute was never assigned.
AdaptW(w, a, key, value, by, stack) ==
    IF w.state[a] = Unset THEN Raise(w)
    ELSE LET previous_value == w.state[a][key]
             w1 == [w EXCEPT !.state[a][key] = value]
         IN EmitW(w1, a, STATE_CHANGED, StateData(key, value, previous_value), by, stack)

\* a.sense(key)
SenseW(w, a, key) ==
    IF w.state[a] = Unset THEN Raise(w)
    ELSE [w EXCEPT !.result = <<w.state[a][key]>>]

----------------------------------------------------------------------------
\* Calls of the application that are followed through the listeners.

\* The variables after a call that ended in world w; note is what the call
\* leaves in last.
Apply(w, note) ==
    /\ status' = w.status
    /\ local_sensors' = w.local_sensors
    /\ global_sensors' = w.global_sensors
    /\ subscribed_agents' = w.subscribed_agents
    /\ needs' = w.needs
    /\ clock' = w.clock
    /\ log' = w.log
    /\ emitted' = w.emitted
    /\ state' = w.state
    /\ raised' = ~w.ok
    /\ last' = note

\* Time passes between two calls of the application.
Tick ==
    /\ Idle
    /\ clock < MaxClock
    /\ clock' = clock + 1
    /\ UNCHANGED <<status, registry, log, raised, last, needs, emitted, state>>

\* a.emit(event_type) with listeners that may raise or call back.
EmitNow(a, event_type) ==
    /\ Idle
    /\ Apply(EmitW(World, a, event_type, NoData, 0, {}),
             [op |-> "emit", agent |-> a, type |-> event_type, prev |-> status[a],
              at |-> clock])

\* a.update_needs(); last keeps the needs and the time at the call, the
\* mapping returned and the assignments made to last_updated.
UpdateNeeds(a) ==
    LET w == UpdateNeedsW(World, a, 0, {})
    IN /\ Idle
       /\ Apply(w, [op |-> "update_needs", agent |-> a, type |-> NEEDS_UPDATED,
                    prev |-> status[a], before |-> needs[a], at |-> clock,
                    result |-> w.result, stamps |-> w.stamps])

\* Whether a need's value is within its bounds.
InRange(need) == need.min_value <= need.value /\ need.value <= need.max_value

\* a.process_need_satisfaction(event_type, satiation_amount).  A negative
\* amount takes a value further below min_value with every call; the model
\* follows that until a value has left its range.
ProcessNeedSatisfaction(a, event_type, satiation_amount) ==
    LET w == ProcessNeedSatisfactionW(World, a, event_type, satiation_amount, 0, {})
    IN /\ Idle
       /\ \A i \in 1..Len(needs[a]) : InRange(needs[a][i])
       /\ Apply(w, [op |-> "process_need_satisfaction", agent |-> a,
                    type |-> NEED_SATISFIED, prev |-> status[a], before |-> needs[a],
                    at |-> clock, event_type |-> event_type,
                    amount |-> satiation_amount, result |-> w.result,
                    stamps |-> w.stamps])

\* a.get_needs_context(); last keeps what update_needs keeps and the string
\* returned.
GetNeedsContext(a) ==
    LET w == GetNeedsContextW(World, a, 0, {})
    IN /\ Idle
       /\ Apply(w, [op |-> "get_needs_context", agent |-> a, type |-> NEEDS_UPDATED,
                    prev |-> status[a], before |-> needs[a], at |-> clock,
                    result |-> w.result, stamps |-> w.stamps])

\* What an agent holds besides its status.
Internal(a) ==
    [local_sensors |-> local_sensors[a], global_sensors |-> global_sensors[a],
     subscribed_agents |-> subscribed_agents[a], needs |-> needs[a]]

\* a.suspend() and a.resume(), followed through the listeners; last keeps
\* what the agent held when the call was made and what the probe listeners
\* read during the call.
SuspendNow(a) ==
    LET w == SuspendW(World, a, 0, {})
    IN /\ Idle
       /\ Apply(w, [op |-> "suspend", agent |-> a, type |-> STATUS_CHANGED,
                    prev |-> status[a], at |-> clock, had |-> Internal(a),
                    seen |-> w.seen])

ResumeNow(a) ==
    LET w == ResumeW(World, a, 0, {})
    IN /\ Idle
       /\ Apply(w, [op |-> "resume", agent |-> a, type |-> STATUS_CHANGED,
                    prev |-> status[a], at |-> clock, had |-> Internal(a),
                    seen |-> w.seen])

\* The world of a call made before the account of the previous call is
\* cleared: the calls and the events of the previous call are kept, so that
\* the calls of both are in one log.
Ongoing ==
    [World EXCEPT !.log = log, !.emitted = emitted,
                  !.objects = [i \in 1..Len(emitted) |-> emitted[i].event]]

\* a.resume() called next after an emit that returned; last keeps how many
\* calls and events the emit left.
ResumeAfter(a) ==
    LET w == ResumeW(Ongoing, a, 0, {})
    IN /\ last.op = "emit" /\ ~raised
       /\ Apply(w, [op |-> "resume", agent |-> a, type |-> STATUS_CHANGED,
                    prev |-> status[a], at |-> clock, had |-> Internal(a),
                    seen |-> w.seen, calls |-> Len(log), emits |-> Len(emitted)])

----------------------------------------------------------------------------
\* The needs engine: one agent, constructed INITIATED or SUSPENDED and with no
\* need or two needs, whose listeners for the events of the engine are f and
\* refresh, each registered at most once for a type.

OneAgent == {"a1"}
NeedEventTypes == {NEEDS_UPDATED, NEED_SATISFIED}
SatiationEventTypes == {GENERIC_SATISFACTION, PRAISE}

\* Amounts passed to process_need_satisfaction: none (the need's
\* satiation_rate), and -1.0 and 2.0, which are outside 0..1.
Amounts == {None, Some(0 - Unit), Some(2 * Unit)}

\* The `needs` argument of the constructor.
NeedLists(now) ==
    { <<>>,
      <<Need("n1", GENERIC_SATISFACTION, now), Need("n2", GENERIC_SATISFACTION, now)>>,
      <<Need("n1", GENERIC_SATISFACTION, now), Need("n2", PRAISE, now)>> }

InitNeeds ==
    /\ status \in [OneAgent -> {INITIATED, SUSPENDED}]
    /\ local_sensors = [a \in OneAgent |-> [t \in NeedEventTypes |-> <<>>]]
    /\ global_sensors = [a \in OneAgent |-> <<>>]
    /\ subscribed_agents = [a \in OneAgent |-> {}]
    /\ log = <<>>
    /\ raised = FALSE
    /\ last = NoCall
    /\ clock = 0
    /\ needs \in [OneAgent -> NeedLists(0)]
    /\ emitted = <<>>
    /\ state = [a \in DOMAIN status |-> Unset]

NextNeeds ==
    \/ Tick
    \/ \E a \in Agents : UpdateNeeds(a)
    \/ \E a \in Agents, t \in SatiationEventTypes, m \in Amounts :
          ProcessNeedSatisfaction(a, t, m)
    \/ \E a \in Agents, t \in NeedEventTypes :
          ~Contains(local_sensors[a][t], User("f")) /\ On(a, t, "f")
    \/ \E a \in Agents :
          ~Contains(local_sensors[a][NEED_SATISFIED], User(REFRESH))
             /\ On(a, NEED_SATISFIED, REFRESH)
    \/ CallReturns

SpecNeeds == InitNeeds /\ [][NextNeeds]_vars

----------------------------------------------------------------------------
\* Dispatch with listeners that raise or emit: two agents in the
\* constructor's default status, with the callables f, boom and relay, which
\* the application registers and removes.

DispatchEventTypes == {MESSAGE_SENT, RELAYED}
DispatchCallbacks == {"f", BOOM, RELAY}

InitDispatch ==
    /\ status = [a \in TwoAgents |-> INITIATED]
    /\ local_sensors = [a \in TwoAgents |-> [t \in DispatchEventTypes |-> <<>>]]
    /\ global_sensors = [a \in TwoAgents |-> <<>>]
    /\ subscribed_agents = [a \in TwoAgents |-> {}]
    /\ log = <<>>
    /\ raised = FALSE
    /\ last = NoCall
    /\ clock = 0
    /\ needs = [a \in TwoAgents |-> <<>>]
    /\ emitted = <<>>
    /\ state = [a \in DOMAIN status |-> Unset]

NextDispatch ==
    \/ Tick
    \/ \E a \in Agents : EmitNow(a, MESSAGE_SENT)
    \/ \E a \in Agents, t \in DispatchEventTypes, n \in DispatchCallbacks : On(a, t, n)
    \/ \E a \in Agents, t \in DispatchEventTypes, n \in DispatchCallbacks : Off(a, t, n)
    \/ \E a \in Agents, n \in DispatchCallbacks : OnAny(a, n)
    \/ \E a \in Agents, n \in DispatchCallbacks : OffAny(a, n)
    \/ \E b \in Agents, a \in Agents : SubscribeTo(b, a)
    \/ CallReturns

SpecDispatch == InitDispatch /\ [][NextDispatch]_vars

----------------------------------------------------------------------------
\* Listeners that change the list they are called from: one agent registers
\* f, once and join for message_sent, and f as a global listener, and emits.

MutationCallbacks == {"f", ONCE, JOIN}

InitMutation ==
    /\ status = [a \in OneAgent |-> INITIATED]
    /\ local_sensors = [a \in OneAgent |-> [t \in {MESSAGE_SENT} |-> <<>>]]
    /\ global_sensors = [a \in OneAgent |-> <<>>]
    /\ subscribed_agents = [a \in OneAgent |-> {}]
    /\ log = <<>>
    /\ raised = FALSE
    /\ last = NoCall
    /\ clock = 0
    /\ needs = [a \in OneAgent |-> <<>>]
    /\ emitted = <<>>
    /\ state = [a \in DOMAIN status |-> Unset]

NextMutation ==
    \/ \E a \in Agents, n \in MutationCallbacks : On(a, MESSAGE_SENT, n)
    \/ \E a \in Agents, n \in MutationCallbacks \cup {"g"} : Off(a, MESSAGE_SENT, n)
    \/ \E a \in Agents : OnAny(a, "f")
    \/ \E a \in Agents : EmitNow(a, MESSAGE_SENT)
    \/ CallReturns

SpecMutation == InitMutation /\ [][NextMutation]_vars

----------------------------------------------------------------------------
\* adapt and sense: agent a1 is constructed with the default status and
\* agent a2 with any status, neither with needs; each registers the callable
\* f at most once in a list, they subscribe to each other, are suspended and
\* resumed, and the application calls adapt and sense on either.

StateEventTypes == {STATE_CHANGED, STATUS_CHANGED}

InitState ==
    /\ status \in [TwoAgents -> LangpifyStatus]
    /\ status["a1"] = INITIATED
    /\ local_sensors = [a \in TwoAgents |-> [t \in StateEventTypes |-> <<>>]]
    /\ global_sensors = [a \in TwoAgents |-> <<>>]
    /\ subscribed_agents = [a \in TwoAgents |-> {}]
    /\ log = <<>>
    /\ raised = FALSE
    /\ last = NoCall
    /\ clock = 0
    /\ needs = [a \in TwoAgents |-> <<>>]
    /\ emitted = <<>>
    /\ state = [a \in DOMAIN status |-> Unset]

\* a.adapt(key, value); last keeps the state the agent had.
Adapt(a, key, value) ==
    /\ Idle
    /\ Apply(AdaptW(World, a, key, value, 0, {}),
             [op |-> "adapt", agent |-> a, type |-> STATE_CHANGED, prev |-> status[a],
              at |-> clock, key |-> key, value |-> value, had |-> state[a]])

\* a.sense(key)
Sense(a, key) ==
    LET w == SenseW(World, a, key)
    IN /\ Idle
       /\ Apply(w, [op |-> "sense", agent |-> a, prev |-> status[a], at |-> clock,
                    key |-> key, had |-> state[a], result |-> w.result])

NextState ==
    \/ \E a \in Agents, key \in StateKeys, value \in StateValues : Adapt(a, key, value)
    \/ \E a \in Agents, key \in StateKeys : Sense(a, key)
    \/ \E a \in Agents, t \in StateEventTypes :
          ~Contains(local_sensors[a][t], User("f")) /\ On(a, t, "f")
    \/ \E a \in Agents : ~Contains(global_sensors[a], User("f")) /\ OnAny(a, "f")
    \/ \E b \in Agents : \E a \in Agents \ {b} :
          a \notin subscribed_agents[b] /\ SubscribeTo(b, a)
    \/ \E a \in Agents : SuspendNow(a)
    \/ \E a \in Agents : ResumeNow(a)
    \/ CallReturns

SpecState == InitState /\ [][NextState]_vars

----------------------------------------------------------------------------
\* The methods of LangpifyNeed called on the one need n1 of an agent:
\* need.decay(elapsed_seconds), need.satiate(satiation_amount) and
\* need.get_urgency_level().  The need is constructed with a value between
\* min_value and max_value and one of two decay rates and satiation rates.

\* Arguments of decay, in seconds, and of satiate, in tenths.
ElapsedSeconds == {0 - 1, 0, 1, 3}
SatiationAmounts == {None, Some(0 - Unit), Some(0), Some(Unit)}

\* LangpifyNeed(name="n1", value=..., decay_rate=..., satiation_rate=...)
NeedOf(value, decay_rate, satiation_rate) ==
    [Need("n1", GENERIC_SATISFACTION, 0) EXCEPT !.value = value,
        !.decay_rate = decay_rate, !.satiation_rate = satiation_rate]

InitNeed ==
    /\ status = [a \in OneAgent |-> INITIATED]
    /\ local_sensors = [a \in OneAgent |-> [t \in {NEEDS_UPDATED} |-> <<>>]]
    /\ global_sensors = [a \in OneAgent |-> <<>>]
    /\ subscribed_agents = [a \in OneAgent |-> {}]
    /\ log = <<>>
    /\ raised = FALSE
    /\ last = NoCall
    /\ clock = 0
    /\ \E value \in DefaultMinValue..DefaultMaxValue :
          \E rates \in {<<1, DefaultSatiationRate>>, <<DecayRate, Unit>>} :
             needs = [a \in OneAgent |-> <<NeedOf(value, rates[1], rates[2])>>]
    /\ emitted = <<>>
    /\ state = [a \in DOMAIN status |-> Unset]

\* A call on the need leaves the agent alone.
NeedCall(a, need, ok, note) ==
    /\ Idle
    /\ needs' = [needs EXCEPT ![a][1] = need]
    /\ raised' = ~ok
    /\ last' = note
    /\ log' = <<>>
    /\ UNCHANGED <<status, registry, clock, emitted, state>>

\* a.needs["n1"].decay(elapsed_seconds); a negative argument is followed
\* from a value within bounds only.
DecayCall(a, elapsed_seconds) ==
    LET need == needs[a][1]
        after == Decay(need, elapsed_seconds)
    IN /\ elapsed_seconds < 0 => InRange(need)
       /\ NeedCall(a, after, TRUE,
                   [op |-> "decay", agent |-> a, before |-> need,
                    elapsed_seconds |-> elapsed_seconds, result |-> after.value])

\* a.needs["n1"].satiate(satiation_amount); likewise.
SatiateCall(a, satiation_amount) ==
    LET need == needs[a][1]
        after == IF SatiateRaises(need) THEN need ELSE Satiate(need, satiation_amount)
        amount == IF satiation_amount = None THEN need.satiation_rate
                  ELSE satiation_amount[1]
    IN /\ amount < 0 => InRange(need)
       /\ NeedCall(a, after, ~SatiateRaises(need),
                   [op |-> "satiate", agent |-> a, before |-> need, amount |-> amount,
                    result |-> IF SatiateRaises(need) THEN NoResult ELSE <<after.value>>])

\* a.needs["n1"].get_urgency_level()
UrgencyCall(a) ==
    LET need == needs[a][1]
    IN NeedCall(a, need, TRUE,
                [op |-> "get_urgency_level", agent |-> a, before |-> need,
                 result |-> GetUrgencyLevel(need)])

NextNeed ==
    \/ \E a \in Agents, e \in ElapsedSeconds : DecayCall(a, e)
    \/ \E a \in Agents, m \in SatiationAmounts : SatiateCall(a, m)
    \/ \E a \in Agents : UrgencyCall(a)
    \/ CallReturns

SpecNeed == InitNeed /\ [][NextNeed]_vars

----------------------------------------------------------------------------
\* Decay over time: one agent, constructed INITIATED or SUSPENDED at time 0
\* with no need, one need or two needs of different decay rates, whose needs
\* are updated, directly or by get_needs_context, as time passes; nothing
\* satisfies them.

\* How far the clock of this study goes.
DecayHorizon == MaxClock + 2

\* The time the agent is constructed at.
ConstructedAt == 0

\* LangpifyNeed(name=..., decay_rate=...) in tenths per second.
NeedDecaying(name, decay_rate, now) ==
    [Need(name, GENERIC_SATISFACTION, now) EXCEPT !.decay_rate = decay_rate]

DecayingNeedLists(now) ==
    { <<>>,
      <<NeedDecaying("n1", 1, now)>>,
      <<NeedDecaying("n1", 2, now), NeedDecaying("n2", DecayRate, now)>> }

InitDecay ==
    /\ status \in [OneAgent -> {INITIATED, SUSPENDED}]
    /\ local_sensors = [a \in OneAgent |-> [t \in {NEEDS_UPDATED} |-> <<>>]]
    /\ global_sensors = [a \in OneAgent |-> <<>>]
    /\ subscribed_agents = [a \in OneAgent |-> {}]
    /\ log = <<>>
    /\ raised = FALSE
    /\ last = NoCall
    /\ clock = ConstructedAt
    /\ needs \in [OneAgent -> DecayingNeedLists(ConstructedAt)]
    /\ emitted = <<>>
    /\ state = [a \in DOMAIN status |-> Unset]

\* Time passes between two calls of the application.
Later ==
    /\ Idle
    /\ clock < DecayHorizon
    /\ clock' = clock + 1
    /\ UNCHANGED <<status, registry, log, raised, last, needs, emitted, state>>

NextDecay ==
    \/ Later
    \/ \E a \in Agents : UpdateNeeds(a)
    \/ \E a \in Agents : GetNeedsContext(a)
    \/ \E a \in Agents :
          ~Contains(local_sensors[a][NEEDS_UPDATED], User("f")) /\ On(a, NEEDS_UPDATED, "f")
    \/ \E a \in Agents : Off(a, NEEDS_UPDATED, "f")
    \/ CallReturns

SpecDecay == InitDecay /\ [][NextDecay]_vars

----------------------------------------------------------------------------
\* The lifecycle among all core operations: agent a1 is constructed with the
\* default status and one need, agent a2 with any status and no need; each
\* registers the callable f at most once in a list, and every core operation
\* is called on either (those of the needs engine on the agent with a need,
\* satisfied with the amount 2.0, which fills it).

LifecycleEventTypes == {STATUS_CHANGED, MESSAGE_SENT}

InitLifecycle ==
    /\ status \in [TwoAgents -> LangpifyStatus]
    /\ status["a1"] = INITIATED
    /\ local_sensors = [a \in TwoAgents |-> [t \in LifecycleEventTypes |-> <<>>]]
    /\ global_sensors = [a \in TwoAgents |-> <<>>]
    /\ subscribed_agents = [a \in TwoAgents |-> {}]
    /\ log = <<>>
    /\ raised = FALSE
    /\ last = NoCall
    /\ clock = 0
    /\ needs = [a \in TwoAgents |->
                  IF a = "a1" THEN <<Need("n1", GENERIC_SATISFACTION, 0)>> ELSE <<>>]
    /\ emitted = <<>>
    /\ state = [a \in DOMAIN status |-> Unset]

NextLifecycle ==
    \/ Tick
    \/ \E a \in Agents, t \in LifecycleEventTypes : EmitNow(a, t)
    \/ \E a \in Agents, t \in LifecycleEventTypes :
          ~Contains(local_sensors[a][t], User("f")) /\ On(a, t, "f")
    \/ \E a \in Agents, t \in LifecycleEventTypes : Off(a, t, "f")
    \/ \E a \in Agents : ~Contains(global_sensors[a], User("f")) /\ OnAny(a, "f")
    \/ \E a \in Agents : OffAny(a, "f")
    \/ \E b \in Agents : \E a \in Agents \ {b} :
          a \notin subscribed_agents[b] /\ SubscribeTo(b, a)
    \/ \E b \in Agents : \E a \in Agents \ {b} : UnsubscribeFrom(b, a)
    \/ \E a \in Agents : needs[a] # <<>> /\ UpdateNeeds(a)
    \/ \E a \in Agents :
          needs[a] # <<>> /\ ProcessNeedSatisfaction(a, GENERIC_SATISFACTION, Some(2 * Unit))
    \/ \E a \in Agents : needs[a] # <<>> /\ GetNeedsContext(a)
    \/ \E a \in Agents : SuspendNow(a)
    \/ \E a \in Agents : ResumeNow(a)
    \/ CallReturns

SpecLifecycle == InitLifecycle /\ [][NextLifecycle]_vars

----------------------------------------------------------------------------
\* The gate and the status around suspend and resume: two agents, each
\* constructed with the default status or SUSPENDED, register f for
\* message_sent and probe and boom for status_changed, subscribe, emit, and
\* are suspended and resumed.

InitGate ==
    /\ status \in [TwoAgents -> {INITIATED, SUSPENDED}]
    /\ local_sensors = [a \in TwoAgents |-> [t \in LifecycleEventTypes |-> <<>>]]
    /\ global_sensors = [a \in TwoAgents |-> <<>>]
    /\ subscribed_agents = [a \in TwoAgents |-> {}]
    /\ log = <<>>
    /\ raised = FALSE
    /\ last = NoCall
    /\ clock = 0
    /\ needs = [a \in TwoAgents |-> <<>>]
    /\ emitted = <<>>
    /\ state = [a \in DOMAIN status |-> Unset]

NextGate ==
    \/ \E a \in Agents :
          ~Contains(local_sensors[a][MESSAGE_SENT], User("f")) /\ On(a, MESSAGE_SENT, "f")
    \/ \E a \in Agents, n \in {PROBE, BOOM} :
          ~Contains(local_sensors[a][STATUS_CHANGED], User(n)) /\ On(a, STATUS_CHANGED, n)
    \/ \E b \in Agents : \E a \in Agents \ {b} :
          a \notin subscribed_agents[b] /\ SubscribeTo(b, a)
    \/ \E a \in Agents : EmitNow(a, MESSAGE_SENT)
    \/ \E a \in Agents : SuspendNow(a)
    \/ \E a \in Agents : ResumeNow(a)
    \/ \E a \in Agents : ResumeAfter(a)
    \/ CallReturns

SpecGate == InitGate /\ [][NextGate]_vars

----------------------------------------------------------------------------
\* Reading the record of the last call.

\* The last call was a.emit(...) from the application.
Emitted == last.op = "emit"

\* The calls made to listeners held in the lists of agent b.
CallsOf(b) == SelectSeq(log, LAMBDA c : c.agent = b)

\* The calls made by the loops of the emit itself, not by a forwarding handler.
TopCalls == SelectSeq(log, LAMBDA c : c.depth = 0)

ListenersIn(calls) == [i \in 1..Len(calls) |-> calls[i].listener]

\* Agent b's listeners for an event of type t in dispatch order.
Registered(b, t) == local_sensors[b][t] \o global_sensors[b]

\* The last call's event was not dropped by the caller's suspension gate.
PassedGate == ~(last.prev = SUSPENDED /\ last.type # STATUS_CHANGED)

\* The status_changed event of suspend and resume.
StatusEvent(a, previous, current) == Event(a, STATUS_CHANGED, StatusData(previous, current))

----------------------------------------------------------------------------
\* C1: emit(event_type) with event_type other than "status_changed" on an
\* agent whose status is SUSPENDED calls no listener at all, whatever the
\* registry holds, and returns without an exception.
C1_SuspendedEmitIsDropped ==
    (Emitted /\ last.prev = SUSPENDED /\ last.type # STATUS_CHANGED)
        => (log = <<>> /\ ~raised)

\* C1 witness: such an emit on a suspended agent that has a listener for the
\* type and a global listener.
C1_Witness ==
    /\ Emitted /\ last.prev = SUSPENDED /\ last.type # STATUS_CHANGED
    /\ local_sensors[last.agent][last.type] # <<>>
    /\ global_sensors[last.agent] # <<>>

\* C2: emit("status_changed") on a SUSPENDED agent calls every listener
\* registered for "status_changed" and every global listener with the event
\* (in a dispatch in which no listener raises; a raising listener ends the
\* dispatch, base_agent.py:290-297).
C2_SuspendedStillEmitsStatusChanged ==
    (Emitted /\ last.prev = SUSPENDED /\ last.type = STATUS_CHANGED /\ ~raised)
        => \A i \in 1..Len(Registered(last.agent, STATUS_CHANGED)) :
              \E j \in 1..Len(TopCalls) :
                 /\ TopCalls[j].agent = last.agent
                 /\ TopCalls[j].listener = Registered(last.agent, STATUS_CHANGED)[i]
                 /\ TopCalls[j].event = Event(last.agent, STATUS_CHANGED, NoData)

\* C2 witness: status_changed emitted by a suspended agent with a listener
\* for it and a global listener, both called.
C2_Witness ==
    /\ Emitted /\ last.prev = SUSPENDED /\ last.type = STATUS_CHANGED /\ ~raised
    /\ local_sensors[last.agent][STATUS_CHANGED] # <<>>
    /\ global_sensors[last.agent] # <<>>
    /\ Len(TopCalls) >= 2

\* C3: an emit that passes the gate calls the listeners registered for exactly
\* the event's type, in registration order, and then the global listeners, in
\* registration order, each with the emitted event, and no other listener of
\* the agent (in a dispatch in which no listener raises).
C3_DispatchOrder ==
    (Emitted /\ PassedGate /\ ~raised)
        => /\ ListenersIn(TopCalls) = Registered(last.agent, last.type)
           /\ \A j \in 1..Len(TopCalls) :
                 /\ TopCalls[j].agent = last.agent
                 /\ TopCalls[j].event = Event(last.agent, last.type, NoData)

\* C3 witness: two different listeners of the type, a global listener and
\* nothing gated.
C3_Witness ==
    /\ Emitted /\ PassedGate /\ ~raised
    /\ Len(local_sensors[last.agent][last.type]) = 2
    /\ local_sensors[last.agent][last.type][1] # local_sensors[last.agent][last.type][2]
    /\ global_sensors[last.agent] # <<>>
    /\ Len(TopCalls) = 3

\* C4: suspend() in any status sets status to SUSPENDED and dispatches one
\* status_changed event with previous_status = the status before the call and
\* current_status = SUSPENDED; the event reaches the agent's listeners for
\* status_changed and its global listeners, each once, although the agent is
\* now suspended (in a dispatch in which no listener raises).
C4_SuspendFromAnyStatus ==
    last.op = "suspend"
        => /\ status[last.agent] = SUSPENDED
           /\ \A j \in 1..Len(log) :
                 log[j].event = StatusEvent(last.agent, last.prev, SUSPENDED)
           /\ ~raised =>
                 ListenersIn(TopCalls) = Registered(last.agent, STATUS_CHANGED)

\* C4 witness: suspend() of an agent that is not in a status the core reaches
\* by itself, with listeners that were called.
C4_Witness ==
    /\ last.op = "suspend" /\ last.prev = DELETED /\ ~raised
    /\ local_sensors[last.agent][STATUS_CHANGED] # <<>>
    /\ global_sensors[last.agent] # <<>>
    /\ Len(TopCalls) >= 2

\* C4 witness, second case: suspend() of an agent that is already SUSPENDED.
C4_WitnessAlreadySuspended ==
    /\ last.op = "suspend" /\ last.prev = SUSPENDED /\ ~raised
    /\ Len(TopCalls) >= 1

\* C5: resume() in status SUSPENDED or INITIATED sets status to ACTIVE and
\* dispatches one status_changed event with previous_status = the old
\* status and current_status = ACTIVE (to each listener once, in a dispatch in
\* which no listener raises).
C5_ResumeActivates ==
    (last.op = "resume" /\ last.prev \in {SUSPENDED, INITIATED})
        => /\ status[last.agent] = ACTIVE
           /\ \A j \in 1..Len(log) :
                 log[j].event = StatusEvent(last.agent, last.prev, ACTIVE)
           /\ ~raised =>
                 ListenersIn(TopCalls) = Registered(last.agent, STATUS_CHANGED)

\* C5 witness: resume() of an INITIATED agent with a listener that was called.
C5_Witness ==
    /\ last.op = "resume" /\ last.prev = INITIATED /\ ~raised
    /\ Len(TopCalls) >= 1

\* C6: resume() in status ACTIVE, WORKING, WAITING, ERROR or DELETED leaves
\* status unchanged, calls no listener and raises nothing.
C6_ResumeNoOp ==
    (last.op = "resume" /\ last.prev \in {ACTIVE, WORKING, WAITING, ERROR, DELETED})
        => /\ status[last.agent] = last.prev
           /\ log = <<>>
           /\ ~raised

\* C6 witness: resume() of a WORKING agent that has listeners for
\* status_changed.
C6_Witness ==
    /\ last.op = "resume" /\ last.prev = WORKING
    /\ local_sensors[last.agent][STATUS_CHANGED] # <<>>
    /\ global_sensors[last.agent] # <<>>

\* The last call made its agent emit a status_changed event.
EmittedStatusChanged ==
    \/ Emitted /\ last.type = STATUS_CHANGED
    \/ last.op = "suspend"
    \/ last.op = "resume" /\ last.prev \in {SUSPENDED, INITIATED}

\* The last call made its agent emit an event.
EmittedAny == Emitted \/ EmittedStatusChanged

\* Number of elements of seq equal to x.
Count(seq, x) == Cardinality({i \in 1..Len(seq) : seq[i] = x})

\* C7: when b is subscribed to a and neither is suspended, one a.emit(X)
\* calls each of b's listeners for X and each of b's global listeners exactly
\* once (as many times as it is registered), in a dispatch that raises
\* nothing.
C7_ForwardedExactlyOnce ==
    (Emitted /\ ~raised /\ last.prev # SUSPENDED)
        => \A b \in Agents \ {last.agent} :
              (last.agent \in subscribed_agents[b] /\ status[b] # SUSPENDED)
                 => \A l \in {User(n) : n \in UserCallbacks} \cup {Handler(c) : c \in Agents} :
                       Count(ListenersIn(CallsOf(b)), l) = Count(Registered(b, last.type), l)

\* C8: once b.unsubscribe_from(a) has returned, and until b.subscribe_to(a)
\* is called again, no event emitted by a (by emit, suspend or resume) calls
\* a listener of b, whatever subscribe_to and unsubscribe_from calls came
\* before.  As steps: unsubscribe_from leaves a's id out of b's subscribed
\* set; only b.subscribe_to(a) puts it back; and while it is out, an event
\* emitted by a calls no listener of b.
C8_NoDeliveryAfterUnsubscribe ==
    [][\A a \in Agents : \A b \in Agents \ {a} :
          /\ UnsubscribeFrom(b, a) => a \notin subscribed_agents'[b]
          /\ (a \notin subscribed_agents[b] /\ a \in subscribed_agents'[b])
                => SubscribeTo(b, a)
          /\ (a \notin subscribed_agents[b] /\ last'.op \in {"emit", "suspend", "resume"}
                /\ last'.agent = a)
                => CallsOf(b)' = <<>>
      ]_vars

\* C8 witness: a emits while b's forwarding handler is still in a's global
\* list (b subscribed twice and unsubscribed once), b is not suspended and
\* has a listener for the event: the handler is called, b's listener is not.
C8_Witness ==
    /\ Emitted /\ PassedGate
    /\ \E b \in Agents \ {last.agent} :
          /\ last.agent \notin subscribed_agents[b]
          /\ Contains(global_sensors[last.agent], Handler(b))
          /\ Contains(ListenersIn(TopCalls), Handler(b))
          /\ status[b] # SUSPENDED
          /\ Registered(b, last.type) # <<>>
          /\ CallsOf(b) = <<>>

\* C9: a's id is in b's subscribed set if and only if b's forwarding handler
\* is in a's global listener list, after any sequence of subscribe_to and
\* unsubscribe_from calls.
C9_EdgeSidesConsistent ==
    \A a \in Agents, b \in Agents :
        (a \in subscribed_agents[b]) <=> Contains(global_sensors[a], Handler(b))

\* C10: the forwarding handler applies the subscriber's gate.  With b
\* SUSPENDED and subscribed to a: an event of another type than
\* status_changed emitted by a non-suspended a calls a's listeners (all of
\* them when nothing raises) and none of b's; a status_changed event emitted
\* by a is delivered to each of b's status_changed and global listeners (when
\* nothing raises).
C10_SubscriberGate ==
    \A b \in Agents :
       (EmittedAny /\ b # last.agent /\ status[b] = SUSPENDED
            /\ last.agent \in subscribed_agents[b])
          => /\ (last.type # STATUS_CHANGED /\ last.prev # SUSPENDED)
                   => /\ CallsOf(b) = <<>>
                      /\ ~raised => ListenersIn(TopCalls) = Registered(last.agent, last.type)
             /\ (EmittedStatusChanged /\ ~raised)
                   => \A i \in 1..Len(Registered(b, STATUS_CHANGED)) :
                         \E j \in 1..Len(CallsOf(b)) :
                            /\ CallsOf(b)[j].listener = Registered(b, STATUS_CHANGED)[i]
                            /\ CallsOf(b)[j].event.source = last.agent
                            /\ CallsOf(b)[j].event.type = STATUS_CHANGED

\* C10 witness: a non-suspended a with a listener emits an ordinary event
\* while its subscriber b, which has a listener for it, is SUSPENDED.
C10_Witness ==
    /\ Emitted /\ last.type # STATUS_CHANGED /\ last.prev # SUSPENDED /\ ~raised
    /\ local_sensors[last.agent][last.type] # <<>>
    /\ \E b \in Agents \ {last.agent} :
          /\ status[b] = SUSPENDED
          /\ last.agent \in subscribed_agents[b]
          /\ Registered(b, last.type) # <<>>
          /\ CallsOf(b) = <<>>

\* C10 witness, second case: a status_changed event of a reaches a listener
\* of the suspended subscriber b.
C10_WitnessStatusChanged ==
    /\ EmittedStatusChanged /\ ~raised
    /\ \E b \in Agents \ {last.agent} :
          /\ status[b] = SUSPENDED
          /\ last.agent \in subscribed_agents[b]
          /\ local_sensors[b][STATUS_CHANGED] # <<>>
          /\ CallsOf(b) # <<>>

C12_UnsubscribeLeavesOthers ==
    /\ [][\A b \in Agents, a \in Agents :
            UnsubscribeFromNoting(b, a, Unsubscribed(b, a))
               => \A c \in subscribed_agents[b] \ {a} :
                     /\ c \in subscribed_agents'[b]
                     /\ global_sensors'[c] = global_sensors[c]
                     /\ Contains(global_sensors'[c], Handler(b))
         ]_vars
    /\ [](\A b \in Agents :
            (Emitted /\ PassedGate /\ ~raised /\ b # last.agent
                /\ last.agent \in subscribed_agents[b] /\ status[b] # SUSPENDED)
               => \A i \in 1..Len(Registered(b, last.type)) :
                     \E j \in 1..Len(CallsOf(b)) :
                        /\ CallsOf(b)[j].listener = Registered(b, last.type)[i]
                        /\ CallsOf(b)[j].event = Event(last.agent, last.type, NoData))

\* C12 witness: b.unsubscribe_from(a) has just returned; b was subscribed to
\* a and to another agent c, is still subscribed to c, and its forwarding
\* handler is in c's global list and no longer in a's.
C12_Witness ==
    /\ last.op = "unsubscribe_from"
    /\ last.from \in last.had
    /\ ~Contains(global_sensors[last.from], Handler(last.agent))
    /\ \E c \in last.had \ {last.from, last.agent} :
          /\ c \in subscribed_agents[last.agent]
          /\ Contains(global_sensors[c], Handler(last.agent))

\* C12 witness, delivery: c emits while b is subscribed to c and not to a
\* third agent a whose global list is empty again, and b's listener is
\* called with c's event.
C12_WitnessDelivery ==
    /\ Emitted /\ ~raised
    /\ \E b \in Agents \ {last.agent} :
          /\ subscribed_agents[b] = {last.agent}
          /\ local_sensors[b][last.type] # <<>>
          /\ CallsOf(b) # <<>>
          /\ \A j \in 1..Len(CallsOf(b)) : CallsOf(b)[j].event.source = last.agent

----------------------------------------------------------------------------
\* Reading the record of a call that was followed through its listeners.

\* The listener calls made with the event of the k-th emit of the last call.
CallsFrom(k) == SelectSeq(log, LAMBDA c : c.origin = k)

\* Those made by the loops of that emit itself, and those made to listeners
\* of agent b.
TopCallsFrom(k) == SelectSeq(log, LAMBDA c : c.origin = k /\ c.depth = 0)
CallsFromTo(k, b) == SelectSeq(log, LAMBDA c : c.origin = k /\ c.agent = b)

\* The k-th emit of the last call was not dropped by the gate.
Dispatched(k) == ~Gated(status, emitted[k].agent, emitted[k].event.type)

C19_ListenerFailurePropagates ==
    \A j \in 1..Len(log) :
        log[j].listener = User(BOOM) => (raised /\ j = Len(log))

\* C19 witness: the listener that raises belongs to a subscriber and is
\* reached through the forwarding handler, and a listener registered after
\* it was not called.
C19_Witness ==
    /\ Emitted /\ raised /\ log # <<>>
    /\ log[Len(log)].listener = User(BOOM)
    /\ log[Len(log)].depth >= 1
    /\ log[Len(log)].agent # last.agent
    /\ \/ Len(Registered(last.agent, last.type)) > Len(TopCallsFrom(1))
       \/ Len(Registered(log[Len(log)].agent, last.type))
             > Len(CallsFromTo(1, log[Len(log)].agent))

\* C20: dispatch is depth-first and re-entrant.  The calls made with the
\* event of an emit that a listener made come after the call of that
\* listener and before every later call of the dispatch the listener was
\* called in; and when nothing raises they are complete when the call of the
\* application returns: every listener of the emitting agent for the nested
\* event, and every listener of its subscribers that are not suspended, has
\* been called with it.  Nothing is left to deliver later.
C20_DepthFirstReentrant ==
    \A k \in 1..Len(emitted) :
       emitted[k].by > 0 =>
          /\ \A j \in 1..Len(log) :
                log[j].origin = k =>
                   /\ j > emitted[k].by
                   /\ \A m \in (emitted[k].by + 1)..(j - 1) : log[m].origin >= k
          /\ (~raised /\ Dispatched(k)) =>
                /\ ListenersIn(TopCallsFrom(k))
                      = Registered(emitted[k].agent, emitted[k].event.type)
                /\ \A b \in Agents \ {emitted[k].agent} :
                      (emitted[k].agent \in subscribed_agents[b] /\ status[b] # SUSPENDED)
                         => \A i \in 1..Len(Registered(b, emitted[k].event.type)) :
                               Contains(ListenersIn(CallsFromTo(k, b)),
                                        Registered(b, emitted[k].event.type)[i])

\* C20 witness: relay is called, a listener of a subscriber is called with
\* the nested event, and only then the next listener of the outer dispatch.
C20_Witness ==
    /\ Emitted /\ ~raised
    /\ \E i \in 1..Len(log), j \in 1..Len(log), m \in 1..Len(log) :
          /\ i < j /\ j < m
          /\ log[i].listener = User(RELAY)
          /\ log[j].origin \in 1..Len(emitted)
          /\ emitted[log[j].origin].by = i
          /\ log[j].depth >= 1
          /\ log[j].listener.kind = "user"
          /\ log[m].origin = log[i].origin

----------------------------------------------------------------------------
\* The needs engine.

\* The emits made by the call of the application itself, not by a listener.
OwnEmits == SelectSeq(emitted, LAMBDA e : e.by = 0)

\* The names of the needs in a needs mapping.
NamesOf(ns) == {ns[i].name : i \in DOMAIN ns}

\* C14: a call of update_needs() on an agent with at least one need emits
\* exactly one needs_updated event, built at the time of the call, whose data
\* holds the value of every need as the call leaves it, which is also the
\* mapping returned; this also when no time has passed for any need and no
\* value changed.  The event reaches every needs_updated listener of the
\* agent unless the agent is suspended.  On an agent with no needs the call
\* emits nothing and returns the empty mapping.
C14_UpdateNeedsEmitsOnce ==
    last.op = "update_needs" =>
       IF last.before = <<>>
       THEN emitted = <<>> /\ log = <<>> /\ DOMAIN last.result = {}
       ELSE /\ Len(OwnEmits) = 1
            /\ Len(emitted) = 1
            /\ emitted[1].event
                  = EventAt(last.agent, NEEDS_UPDATED,
                            [needs |-> ValuesOf(needs[last.agent])], last.at)
            /\ DOMAIN emitted[1].event.data.needs = NamesOf(last.before)
            /\ last.result = emitted[1].event.data.needs
            /\ ~raised
            /\ ListenersIn(log)
                  = IF last.prev = SUSPENDED THEN <<>>
                    ELSE Registered(last.agent, NEEDS_UPDATED)

\* C14 witness: update_needs() is called when no time has passed since any
\* need was last updated; the needs are as they were, and the agent's
\* listener has received the one needs_updated event with both values.
C14_Witness ==
    /\ last.op = "update_needs"
    /\ Len(last.before) = 2
    /\ \A i \in 1..Len(last.before) : last.before[i].last_updated = last.at
    /\ needs[last.agent] = last.before
    /\ Len(emitted) = 1
    /\ Len(log) >= 1
    /\ log[1].event.data.needs = ValuesOf(last.before)

\* The last call was process_need_satisfaction, and the positions of the
\* needs its event_type matches.
Satisfying == last.op = "process_need_satisfaction"
MatchingNeeds ==
    {i \in 1..Len(last.before) : last.before[i].satiation_event_type = last.event_type}

\* No listener called back into the needs engine during the last call.
NoReentry == Len(emitted) = Len(OwnEmits)

\* C15: process_need_satisfaction(event_type, amount) emits exactly one
\* need_satisfied event for each need whose satiation_event_type equals
\* event_type and no other event; the data of the event holds need_name,
\* old_value, new_value and event_type, where new_value is what satiate
\* makes of old_value with the amount, and old_value is the value the need
\* had at the call unless a listener called back into the engine meanwhile;
\* the need is left with new_value (same proviso).  The mapping returned has
\* exactly the matching needs, each with its new_value.
C15_OneNeedSatisfiedPerMatch ==
    (Satisfying /\ ~raised) =>
       /\ Len(OwnEmits) = Cardinality(MatchingNeeds)
       /\ \A k \in 1..Len(OwnEmits) :
             /\ OwnEmits[k].event.type = NEED_SATISFIED
             /\ OwnEmits[k].event.source = last.agent
             /\ DOMAIN OwnEmits[k].event.data
                   = {"need_name", "old_value", "new_value", "event_type"}
             /\ OwnEmits[k].event.data.event_type = last.event_type
       /\ \A i \in MatchingNeeds :
             \E k \in 1..Len(OwnEmits) :
                LET data == OwnEmits[k].event.data
                IN /\ data.need_name = last.before[i].name
                   /\ \A m \in 1..Len(OwnEmits) :
                         OwnEmits[m].event.data.need_name = data.need_name => m = k
                   /\ data.new_value
                         = Satiate([last.before[i] EXCEPT !.value = data.old_value],
                                   last.amount).value
                   /\ last.result[data.need_name] = data.new_value
                   /\ NoReentry =>
                         /\ data.old_value = last.before[i].value
                         /\ needs[last.agent][i].value = data.new_value
       /\ DOMAIN last.result = {last.before[i].name : i \in MatchingNeeds}

\* C15 witness: both needs of the agent match; each got its need_satisfied
\* event with a new value above the old one, a listener received both, and
\* the mapping returned names both.
C15_Witness ==
    /\ Satisfying /\ ~raised
    /\ Cardinality(MatchingNeeds) = 2
    /\ Len(OwnEmits) = 2
    /\ \A k \in 1..2 : OwnEmits[k].event.data.new_value > OwnEmits[k].event.data.old_value
    /\ DOMAIN last.result = {"n1", "n2"}
    /\ Len(log) >= 2

\* C16: process_need_satisfaction(event_type) emits no need_satisfied event
\* for a need whose satiation_event_type differs from event_type, does not
\* put it in the mapping returned, and leaves it as it was, value and
\* last_updated included.  (A listener that calls update_needs() during the
\* call has that call's effect on the need; the need is then left as
\* update_needs leaves it.)
C16_NonMatchingUntouched ==
    Satisfying =>
       \A i \in (1..Len(last.before)) \ MatchingNeeds :
          /\ \A k \in 1..Len(OwnEmits) :
                OwnEmits[k].event.data.need_name # last.before[i].name
          /\ last.before[i].name \notin DOMAIN last.result
          /\ NoReentry => needs[last.agent][i] = last.before[i]
          /\ ~NoReentry =>
                \E t \in last.at..MaxClock :
                   needs[last.agent][i] = Updated(last.before[i], t)

\* C16 witness: time has passed since the needs were last updated; the call
\* satiates and stamps the matching need n1, a listener receives its
\* need_satisfied event, and n2, which does not match, keeps its value and
\* its older last_updated.
C16_Witness ==
    /\ Satisfying /\ ~raised /\ NoReentry
    /\ MatchingNeeds = {1} /\ Len(last.before) = 2
    /\ last.before[2].last_updated < last.at
    /\ needs[last.agent][1].last_updated = last.at
    /\ needs[last.agent][1].value # last.before[1].value
    /\ needs[last.agent][2] = last.before[2]
    /\ Len(OwnEmits) = 1 /\ Len(log) >= 1

\* C17: the value of every need of every agent is within the need's bounds
\* in every state, whatever calls of update_needs and
\* process_need_satisfaction were made, with whatever amount.
C17_NeedBounds ==
    \A a \in Agents : \A i \in 1..Len(needs[a]) : InRange(needs[a][i])

\* C18: the clock never goes back, and no assignment to the last_updated of
\* a need, by update_needs or by process_need_satisfaction, called by the
\* application or by a listener during such a call, gives it an earlier time
\* than the one it held; so last_updated is also no earlier after a call
\* than before it.
C18_LastUpdatedNeverDecreases ==
    /\ [][clock' >= clock]_vars
    /\ []((last.op \in {"update_needs", "process_need_satisfaction"}) =>
            /\ \A p \in 1..Len(last.stamps) : last.stamps[p].at >= last.stamps[p].was
            /\ \A i \in 1..Len(last.before) :
                  needs[last.agent][i].last_updated >= last.before[i].last_updated)

----------------------------------------------------------------------------
\* The lifecycle.

\* The agent of the lifecycle study that is constructed with the default
\* status.
CreatedInitiated == "a1"

\* C21: whatever core operation is called (emit, on, off, on_any, off_any,
\* subscribe_to, unsubscribe_from, update_needs, process_need_satisfaction,
\* get_needs_context, suspend, resume), the status of an agent changes only
\* in a.suspend(), to SUSPENDED, and in a.resume() of an agent that is
\* SUSPENDED or INITIATED, to ACTIVE.  So the agent created INITIATED is
\* always INITIATED, ACTIVE or SUSPENDED, and is not INITIATED again once it
\* has left that status.
C21_StatusOnlyBySuspendResume ==
    /\ [][\A a \in Agents :
            status'[a] # status[a] =>
               \/ /\ last'.op = "suspend" /\ last'.agent = a
                  /\ status'[a] = SUSPENDED
               \/ /\ last'.op = "resume" /\ last'.agent = a
                  /\ status[a] \in {SUSPENDED, INITIATED}
                  /\ status'[a] = ACTIVE
         ]_vars
    /\ [](status[CreatedInitiated] \in {INITIATED, ACTIVE, SUSPENDED})
    /\ [][status[CreatedInitiated] # INITIATED => status'[CreatedInitiated] # INITIATED]_vars

\* C21 witness: the agent created INITIATED has been suspended and is ACTIVE
\* again after resume(); it has listeners and a subscriber, its need has
\* been updated or satisfied since construction, and the other agent, on
\* which operations other than suspend and resume were called, still has the
\* status WORKING it was constructed with.
C21_Witness ==
    /\ last.op = "resume" /\ last.agent = CreatedInitiated
    /\ last.prev = SUSPENDED /\ status[CreatedInitiated] = ACTIVE
    /\ needs[CreatedInitiated] # <<Need("n1", GENERIC_SATISFACTION, 0)>>
    /\ local_sensors[CreatedInitiated][STATUS_CHANGED] # <<>>
    /\ \E b \in Agents \ {CreatedInitiated} :
          /\ CreatedInitiated \in subscribed_agents[b]
          /\ status[b] = WORKING
          /\ global_sensors[b] # <<>>

\* a.emit(event_type) called now, had the status of a been s.
EmitAs(a, s, event_type) ==
    EmitW([World EXCEPT !.status[a] = s], a, event_type, NoData, 0, {})

\* C22: an emit by an agent whose status is INITIATED, ACTIVE, WORKING,
\* WAITING, ERROR or DELETED, of any event type, calls the agent's listeners
\* for the type and then its global listeners, each with the event, and
\* makes, in all, the very calls it would have made with the agent ACTIVE.
C22_OnlySuspendedGates ==
    (Emitted /\ last.prev # SUSPENDED) =>
       /\ log = EmitAs(last.agent, ACTIVE, last.type).log
       /\ raised = ~EmitAs(last.agent, ACTIVE, last.type).ok
       /\ ~raised => ListenersIn(TopCallsFrom(1)) = Registered(last.agent, last.type)
       /\ \A j \in 1..Len(log) :
             log[j].event = EventAt(last.agent, last.type, NoData, last.at)

\* C22 witness: an agent constructed with the status ERROR emits
\* message_sent; its listener for the type is called, then its global
\* listeners, one of them the forwarding handler of a subscriber.
C22_Witness ==
    /\ Emitted /\ ~raised
    /\ last.prev = ERROR /\ last.type = MESSAGE_SENT
    /\ Len(TopCallsFrom(1)) >= 2
    /\ TopCallsFrom(1)[1].listener = User("f")
    /\ \E j \in 1..Len(log) : log[j].depth = 0 /\ log[j].listener.kind = "handler"

\* The last call was get_needs_context.
ContextRead == last.op = "get_needs_context"

\* C23: get_needs_context() on an agent with no needs returns "No active
\* needs.", emits nothing and calls no listener, and the agent still has no
\* needs.  On an agent with needs it does what update_needs() does at that
\* time: every need is decayed by the time passed since its last update and
\* stamped, one needs_updated event with the new values is emitted (and
\* reaches the listeners unless the agent is suspended); the lines returned
\* give, per need, its name, the percentage and the urgency of the value
\* after that update.
C23_NeedsContextUpdatesFirst ==
    ContextRead =>
       IF last.before = <<>>
       THEN /\ last.result = NO_ACTIVE_NEEDS
            /\ needs[last.agent] = <<>>
            /\ emitted = <<>> /\ log = <<>> /\ last.stamps = <<>> /\ ~raised
       ELSE /\ needs[last.agent]
                  = [i \in 1..Len(last.before) |-> Updated(last.before[i], last.at)]
            /\ Len(emitted) = 1
            /\ emitted[1].event
                  = EventAt(last.agent, NEEDS_UPDATED,
                            [needs |-> ValuesOf(needs[last.agent])], last.at)
            /\ ListenersIn(log)
                  = IF last.prev = SUSPENDED THEN <<>>
                    ELSE Registered(last.agent, NEEDS_UPDATED)
            /\ ~raised
            /\ Len(last.result) = 1 + Len(last.before)
            /\ last.result[1] = CURRENT_INTERNAL_NEEDS
            /\ \A i \in 1..Len(last.before) :
                  /\ last.result[i + 1].name = last.before[i].name
                  /\ last.result[i + 1].percentage * Unit
                        = needs[last.agent][i].value * 100
                  /\ last.result[i + 1].urgency = GetUrgencyLevel(needs[last.agent][i])

\* C23 witness: time has passed since the needs were last updated; the call
\* lowers both values, the listener receives needs_updated, and the lines
\* returned show the lowered values, not those the needs had at the call.
C23_Witness ==
    /\ ContextRead /\ Len(last.before) = 2
    /\ \A i \in 1..2 :
          /\ needs[last.agent][i].value < last.before[i].value
          /\ needs[last.agent][i].last_updated = last.at
          /\ last.result[i + 1] # ToContextString(last.before[i])
    /\ Len(log) = 1
    /\ log[1].event.data.needs = ValuesOf(needs[last.agent])

\* C23 witness, no needs: the call returns the literal and leaves no trace,
\* although a needs_updated listener is registered and time has passed.
C23_WitnessNoNeeds ==
    /\ ContextRead /\ last.before = <<>>
    /\ last.result = NO_ACTIVE_NEEDS
    /\ last.at > ConstructedAt
    /\ local_sensors[last.agent][NEEDS_UPDATED] # <<>>
    /\ emitted = <<>>

----------------------------------------------------------------------------
\* The arithmetic of a need.

\* C24: need.decay(elapsed) leaves value = max(min_value, value - decay_rate
\* * elapsed) and returns it; and for elapsed >= 0 the new value is not
\* greater than the value before the call and not less than min_value.
C24_DecayLowersToMin ==
    last.op = "decay" =>
       LET need == needs[last.agent][1]
       IN /\ need.value
               = Max(last.before.min_value,
                     last.before.value - last.before.decay_rate * last.elapsed_seconds)
          /\ last.result = need.value
          /\ last.elapsed_seconds >= 0 =>
                /\ need.value <= last.before.value
                /\ need.value >= need.min_value

C24_Reached ==
    /\ last.op = "decay"
    /\ last.elapsed_seconds > 0
    /\ last.before.value > last.before.min_value

\* The increment of need.satiate(amount) from the value v.
Increment(need, amount, v) ==
    Satiate([need EXCEPT !.value = v], Some(amount)).value - v

\* C26: need.satiate(amount) with amount >= 0, or with the need's
\* satiation_rate when the argument is omitted, returns a value not less than
\* the value before the call and not greater than max_value; and from every
\* value farther from max_value the same amount gives an increment at least
\* as large.
C26_SatiateRaisesToMax ==
    (last.op = "satiate" /\ last.amount >= 0) =>
       LET need == needs[last.agent][1]
       IN /\ ~raised
          /\ last.result = <<need.value>>
          /\ need.value >= last.before.value
          /\ need.value <= need.max_value
          /\ \A v \in need.min_value..last.before.value :
                Increment(last.before, last.amount, v)
                   >= need.value - last.before.value

C26_Reached ==
    /\ last.op = "satiate"
    /\ last.amount > 0
    /\ ~raised
    /\ needs[last.agent][1].value > last.before.value
    /\ needs[last.agent][1].value < last.before.max_value
    /\ \E v \in last.before.min_value..last.before.value :
          Increment(last.before, last.amount, v)
             > needs[last.agent][1].value - last.before.value

\* The band of a value in tenths.
Band(value) ==
    IF value < 2 THEN "critical"
    ELSE IF value < 4 THEN "high"
    ELSE IF value < 6 THEN "medium"
    ELSE IF value < 8 THEN "low"
    ELSE "satisfied"

\* C27: need.get_urgency_level() returns the band of value, each boundary
\* belonging to the band above it: critical below 0.2, high from 0.2,
\* medium from 0.4, low from 0.6, satisfied from 0.8; and the result is the same
\* for every need with that value, whatever its other fields.
C27_UrgencyBands ==
    last.op = "get_urgency_level" =>
       /\ last.result = Band(last.before.value)
       /\ \A decay_rate \in {1, DecayRate}, satiation_rate \in {DefaultSatiationRate, Unit},
             last_updated \in 0..MaxClock :
             GetUrgencyLevel([last.before EXCEPT !.decay_rate = decay_rate,
                                 !.satiation_rate = satiation_rate,
                                 !.last_updated = last_updated]) = last.result

C27_Witness ==
    /\ last.op = "get_urgency_level"
    /\ last.before.value = 2
    /\ last.result = "high"

C27_WitnessSatisfied ==
    /\ last.op = "get_urgency_level"
    /\ last.before.value = 8
    /\ last.result = "satisfied"

\* C25: decay accumulates over update_needs calls.  Nothing satisfies a need
\* here, so at all times the value of a need is max(min_value, v0 -
\* decay_rate * (last_updated - t0)) with v0 and t0 the value and last_updated
\* of its construction, and after an update_needs call at time tn, however
\* many calls came before it, last_updated is tn: the value is
\* max(min_value, v0 - decay_rate * (tn - t0)) and is the value reported.
C25_DecayAccumulates ==
    \A a \in Agents : \A i \in 1..Len(needs[a]) :
       LET need == needs[a][i]
       IN /\ need.value
               = Max(need.min_value,
                     DefaultValue - need.decay_rate * (need.last_updated - ConstructedAt))
          /\ (last.op \in {"update_needs", "get_needs_context"} /\ last.agent = a) =>
                /\ need.last_updated = last.at
                /\ need.value
                     = Max(need.min_value,
                           DefaultValue - need.decay_rate * (last.at - ConstructedAt))
          /\ (last.op = "update_needs" /\ last.agent = a) =>
                last.result[need.name] = need.value

\* A second update, later than a first one that was later than the
\* construction; one need has reached min_value and the other has not.
C25_Witness ==
    /\ last.op = "update_needs"
    /\ Len(needs[last.agent]) = 2
    /\ last.before[1].last_updated > ConstructedAt
    /\ last.before[1].last_updated < last.at
    /\ needs[last.agent][1].value > DefaultMinValue
    /\ needs[last.agent][1].value < last.before[1].value
    /\ needs[last.agent][2].value = DefaultMinValue

----------------------------------------------------------------------------
\* C28: b.unsubscribe_from(a) while a's id is not in b's subscribed set
\* returns without effect: no subscribed set and no listener list of any
\* agent changes, a's global list included, and nothing is raised.
C28_UnsubscribeAbsentIsNoOp ==
    [][\A b \in Agents, a \in Agents :
          (UnsubscribeFromNoting(b, a, Unsubscribed(b, a)) /\ a \notin subscribed_agents[b])
             => /\ UNCHANGED <<subscribed_agents, global_sensors, local_sensors>>
                /\ ~raised'
      ]_vars

\* C28 witness: b.unsubscribe_from(a) has returned; b was subscribed to
\* another agent and not to a, whose global list holds the forwarding
\* handler of a third agent.
C28_Witness ==
    /\ last.op = "unsubscribe_from"
    /\ last.from \notin last.had
    /\ last.had # {}
    /\ subscribed_agents[last.agent] = last.had
    /\ global_sensors[last.from] # <<>>
    /\ ~Contains(global_sensors[last.from], Handler(last.agent))
    /\ ~raised

----------------------------------------------------------------------------
\* What a.emit(event_type) would do now, had a the status s: the calls made
\* and whether it returns.
DispatchAs(a, s) ==
    [t \in LifecycleEventTypes |->
       [log |-> EmitAs(a, s, t).log, ok |-> EmitAs(a, s, t).ok]]

\* suspend() and resume() leave what the agent holds besides its status.
KeepsInternal ==
    last.op \in {"suspend", "resume"} => Internal(last.agent) = last.had

\* C29 as stated: suspend() and resume() change nothing of the agent but its
\* status, and what the agent's emits dispatch after suspend() followed by
\* resume(), which leaves the agent ACTIVE, is what they dispatched with the
\* status the agent had before the suspend().
C29_SuspendResumeKeepDispatch ==
    /\ KeepsInternal
    /\ (last.op = "resume" /\ last.prev = SUSPENDED) => status[last.agent] = ACTIVE
    /\ last.op = "suspend" =>
          DispatchAs(last.agent, ACTIVE) = DispatchAs(last.agent, last.prev)

\* C29, for a suspend() of an agent that was not suspended already: as
\* above.  (Before the suspend() of a suspended agent its events were
\* dropped; after the resume() they are dispatched.)
C29_KeepDispatchUnlessSuspendedBefore ==
    /\ KeepsInternal
    /\ (last.op = "resume" /\ last.prev = SUSPENDED) => status[last.agent] = ACTIVE
    /\ (last.op = "suspend" /\ last.prev # SUSPENDED) =>
          DispatchAs(last.agent, ACTIVE) = DispatchAs(last.agent, last.prev)

\* C29 witness: the agent created INITIATED, ACTIVE since, has been
\* suspended; it has a listener for message_sent, a global listener and a
\* subscription, its need has decayed, and an emit of message_sent would
\* call listeners.
C29_Witness ==
    /\ last.op = "suspend" /\ last.agent = CreatedInitiated
    /\ last.prev = ACTIVE /\ status[CreatedInitiated] = SUSPENDED
    /\ local_sensors[CreatedInitiated][MESSAGE_SENT] # <<>>
    /\ global_sensors[CreatedInitiated] # <<>>
    /\ subscribed_agents[CreatedInitiated] # {}
    /\ needs[CreatedInitiated] # <<Need("n1", GENERIC_SATISFACTION, 0)>>
    /\ Len(DispatchAs(CreatedInitiated, ACTIVE)[MESSAGE_SENT].log) >= 2

\* C29 witness, resume: the same agent is ACTIVE again after resume().
C29_WitnessResumed ==
    /\ last.op = "resume" /\ last.agent = CreatedInitiated
    /\ last.prev = SUSPENDED /\ status[CreatedInitiated] = ACTIVE
    /\ local_sensors[CreatedInitiated][MESSAGE_SENT] # <<>>
    /\ global_sensors[CreatedInitiated] # <<>>
    /\ subscribed_agents[CreatedInitiated] # {}
    /\ needs[CreatedInitiated] # <<Need("n1", GENERIC_SATISFACTION, 0)>>

----------------------------------------------------------------------------
\* C30: a.adapt(key, value) on an agent that is not suspended returns
\* normally, leaves value under key, so that a.sense(key) then returns value,
\* and emits exactly one event, of type state_changed, whose data holds key,
\* value and as previous_value what a.sense(key) returned before the call;
\* the event reaches the agent's listeners.
C30_AdaptStoresAndEmits ==
    (last.op = "adapt" /\ last.prev # SUSPENDED) =>
       /\ ~raised
       /\ state[last.agent] # Unset
       /\ SenseW(World, last.agent, last.key).ok
       /\ SenseW(World, last.agent, last.key).result = <<last.value>>
       /\ Len(emitted) = 1
       /\ last.had # Unset
       /\ emitted[1].event
             = EventAt(last.agent, STATE_CHANGED,
                       StateData(last.key, last.value, last.had[last.key]), last.at)
       /\ ListenersIn(TopCallsFrom(1)) = Registered(last.agent, STATE_CHANGED)

----------------------------------------------------------------------------
\* Subscription graphs.

\* C31: a.emit(...) returns after finitely many listener calls whatever the
\* subscriptions are, self-subscriptions and cycles included, when the
\* registered callables call nothing back: the dispatch never nests
\* forwarding handlers without end.
C31_EmitTerminates ==
    Emitted => ~raised

\* C33: b.subscribe_to(a) called again changes nothing: b's forwarding
\* handler is in a's global list at most once, so that after one
\* b.unsubscribe_from(a) the handler is in the list no more and a's id is
\* not in b's subscribed set.
C33_SubscribeIdempotent ==
    /\ \A a \in Agents, b \in Agents : Count(global_sensors[a], Handler(b)) <= 1
    /\ last.op = "unsubscribe_from" =>
          /\ last.from \notin subscribed_agents[last.agent]
          /\ ~Contains(global_sensors[last.from], Handler(last.agent))

\* C32: one emit on agent a that returns calls each callable registered by
\* another agent at most once (as often as it is registered, at most),
\* whatever the subscriptions are: also when an agent subscribed to a is
\* subscribed to another agent subscribed to a.
C32_AtMostOnceDelivery ==
    (Emitted /\ ~raised) =>
       \A b \in Agents \ {last.agent} : \A n \in UserCallbacks :
          Count(ListenersIn(CallsOf(b)), User(n))
             <= Count(Registered(b, last.type), User(n))

----------------------------------------------------------------------------
\* C34: an emit calls exactly the listeners that were registered when it
\* started, those of the event's type and then the global ones, each once,
\* also when a listener calls off or on on the dispatching agent while the
\* dispatch runs: no registered listener is skipped and none is called that
\* was registered during the dispatch.
C34_DispatchOverStartingLists ==
    [][\A a \in Agents :
          EmitNow(a, MESSAGE_SENT)
             => ListenersIn(log') = local_sensors[a][MESSAGE_SENT] \o global_sensors[a]
      ]_vars

----------------------------------------------------------------------------
\* A list without its last element: the list as it was before the append
\* that on and on_any make.
Front(lst) == SubSeq(lst, 1, Len(lst) - 1)

\* C35: off(t, cb) called after on(t, cb), that is, on a list for t whose
\* last element is cb, leaves the list as it was before the on, in content
\* and order; likewise off_any after on_any.
C35_OnOffRoundTrip ==
    [][/\ \A a \in Agents, t \in DispatchEventTypes, n \in DispatchCallbacks :
             (/\ Off(a, t, n)
              /\ local_sensors[a][t] # <<>>
              /\ local_sensors[a][t][Len(local_sensors[a][t])] = User(n))
                => local_sensors'[a][t] = Front(local_sensors[a][t])
       /\ \A a \in Agents, n \in DispatchCallbacks :
             (/\ OffAny(a, n)
              /\ global_sensors[a] # <<>>
              /\ global_sensors[a][Len(global_sensors[a])] = User(n))
                => global_sensors'[a] = Front(global_sensors[a])
      ]_vars

----------------------------------------------------------------------------
\* C36: every listener held in the lists of an agent x is called only with
\* events whose source is x itself or an agent x is subscribed to at that
\* time.  So forwarding does not carry on: an event emitted by a reaches the
\* listeners of an agent subscribed to a, the forwarding handlers of its own
\* subscribers among them, and no listener of an agent that is not
\* subscribed to a.
C36_SourceOwnOrSubscribed ==
    /\ \A j \in 1..Len(log) :
          \/ log[j].event.source = log[j].agent
          \/ log[j].event.source \in subscribed_agents[log[j].agent]
    /\ Emitted =>
          \A c \in Agents \ {last.agent} :
             last.agent \notin subscribed_agents[c] => CallsOf(c) = <<>>

\* C36 witness: c is subscribed to b and b to a, c not to a; a emits; c's
\* forwarding handler, a listener of b, is called with a's event, and no
\* listener of c is, although c has one for the type.
C36_Witness ==
    /\ Emitted /\ ~raised
    /\ \E b \in Agents \ {last.agent} : \E c \in Agents \ {last.agent, b} :
          /\ last.agent \in subscribed_agents[b]
          /\ b \in subscribed_agents[c]
          /\ last.agent \notin subscribed_agents[c]
          /\ \E j \in 1..Len(log) :
                /\ log[j].agent = b /\ log[j].listener = Handler(c)
                /\ log[j].event.source = last.agent
          /\ Registered(c, last.type) # <<>>
          /\ CallsOf(c) = <<>>

----------------------------------------------------------------------------
\* C37: while a is SUSPENDED, a.emit(t) with t other than status_changed
\* calls neither the forwarding handler nor any listener of an agent
\* subscribed to a, whatever the status of that agent.
C37_SuspendedSourceSilencesSubscribers ==
    (Emitted /\ last.prev = SUSPENDED /\ last.type # STATUS_CHANGED) =>
       \A b \in Agents :
          last.agent \in subscribed_agents[b] =>
             \A j \in 1..Len(log) :
                log[j].listener # Handler(b) /\ log[j].agent # b

\* C37 witness: a suspended agent emits message_sent; an agent subscribed to
\* it is ACTIVE and has a listener for the type, and nothing of it is called.
C37_Witness ==
    /\ Emitted /\ last.prev = SUSPENDED /\ last.type = MESSAGE_SENT
    /\ \E b \in Agents \ {last.agent} :
          /\ last.agent \in subscribed_agents[b]
          /\ status[b] = ACTIVE
          /\ local_sensors[b][MESSAGE_SENT] # <<>>
          /\ Contains(global_sensors[last.agent], Handler(b))
          /\ CallsOf(b) = <<>>

----------------------------------------------------------------------------
\* C38: an event dropped at the gate is not kept for later.  When resume()
\* is called after an emit, every listener call made by the resume delivers
\* the status_changed event the resume built, never an event of the emit
\* before it, whether that event was dropped at the gate of the emitter or
\* at the gate of a subscriber; and every event a call delivers was built in
\* the operation the call belongs to.
C38_DroppedEventsAreDiscarded ==
    /\ \A j \in 1..Len(log) :
          /\ log[j].origin \in 1..Len(emitted)
          /\ log[j].event = emitted[log[j].origin].event
    /\ (last.op = "resume" /\ "emits" \in DOMAIN last) =>
          \A j \in 1..Len(log) :
             j > last.calls =>
                /\ log[j].origin > last.emits
                /\ log[j].event.type = STATUS_CHANGED
                /\ log[j].event.source = last.agent

\* C38 witness: a SUSPENDED agent with a message_sent listener emits
\* message_sent, which is dropped; it is then resumed, and its listeners are
\* called with status_changed only.
C38_Witness ==
    /\ last.op = "resume" /\ "emits" \in DOMAIN last
    /\ last.prev = SUSPENDED /\ status[last.agent] = ACTIVE
    /\ last.emits = 1 /\ last.calls = 0
    /\ emitted[1].event.type = MESSAGE_SENT /\ emitted[1].agent = last.agent
    /\ local_sensors[last.agent][MESSAGE_SENT] # <<>>
    /\ Len(log) > 0

\* C38 witness: the event of an ACTIVE agent is dropped at the gate of a
\* SUSPENDED subscriber that has a message_sent listener; the subscriber is
\* then resumed and is not called with that event.
C38_WitnessSubscriber ==
    /\ last.op = "resume" /\ "emits" \in DOMAIN last
    /\ last.prev = SUSPENDED /\ status[last.agent] = ACTIVE
    /\ last.emits = 1 /\ last.calls = 1
    /\ emitted[1].agent # last.agent
    /\ log[1].listener = Handler(last.agent)
    /\ local_sensors[last.agent][MESSAGE_SENT] # <<>>
    /\ CallsOf(last.agent) = <<>>

----------------------------------------------------------------------------
\* C39: suspend() and resume() assign the new status before status_changed
\* is dispatched and do not take it back.  Every probe listener called with
\* the status_changed event of the call, on the agent or on a subscriber,
\* reads a status of the agent equal to the event's current_status; and when
\* a listener of that event raises, the agent's status is still the new one.
C39_StatusCommittedBeforeDispatch ==
    (\/ last.op = "suspend"
     \/ last.op = "resume" /\ last.prev \in {SUSPENDED, INITIATED}) =>
       LET event == emitted[Len(emitted)].event
       IN /\ event.type = STATUS_CHANGED /\ event.source = last.agent
          /\ \A i \in 1..Len(last.seen) :
                log[last.seen[i].call].event = event =>
                   last.seen[i].status = event.data.current_status
          /\ status[last.agent] = event.data.current_status
          /\ status[last.agent] = IF last.op = "suspend" THEN SUSPENDED ELSE ACTIVE

\* C39 witness: suspend() on an agent whose status_changed listeners are
\* probe, then boom: probe has read the status and boom has raised.
C39_Witness ==
    /\ last.op = "suspend" /\ raised
    /\ last.prev # SUSPENDED
    /\ last.seen # <<>>
    /\ log[Len(log)].listener = User(BOOM)
    /\ status[last.agent] = SUSPENDED

\* C39 witness: resume() of a SUSPENDED agent; the probe of a subscriber is
\* called and reads ACTIVE.
C39_WitnessSubscriber ==
    /\ last.op = "resume" /\ ~raised
    /\ last.prev = SUSPENDED
    /\ \E i \in 1..Len(last.seen) : log[last.seen[i].call].agent # last.agent

----------------------------------------------------------------------------
\* C40: the needs engine does not read the status.  On a SUSPENDED agent
\* update_needs() lowers every need for which time has passed by decay_rate
\* times the time passed (not below min_value), sets its last_updated to the
\* time of the call and returns the values; process_need_satisfaction()
\* gives every matching need the value satiate makes of it, sets its
\* last_updated and returns these needs with their values; no listener is
\* called by either.
C40_NeedsEngineNotGated ==
    /\ (last.op = "update_needs" /\ last.prev = SUSPENDED) =>
          /\ Len(needs[last.agent]) = Len(last.before)
          /\ \A i \in 1..Len(last.before) :
                LET before == last.before[i]
                    need == needs[last.agent][i]
                    elapsed == last.at - before.last_updated
                IN /\ elapsed > 0 =>
                         /\ need.value
                               = Max(before.min_value,
                                     before.value - before.decay_rate * elapsed)
                         /\ need.last_updated = last.at
                   /\ elapsed <= 0 => need = before
                   /\ last.result[before.name] = need.value
          /\ log = <<>> /\ ~raised
    /\ (Satisfying /\ last.prev = SUSPENDED) =>
          /\ \A i \in 1..Len(last.before) :
                LET before == last.before[i]
                    need == needs[last.agent][i]
                IN IF i \in MatchingNeeds
                   THEN /\ need.value = Satiate(before, last.amount).value
                        /\ need.last_updated = last.at
                        /\ last.result[before.name] = need.value
                   ELSE need = before
          /\ DOMAIN last.result = {last.before[i].name : i \in MatchingNeeds}
          /\ log = <<>> /\ ~raised

\* C40 witness: update_needs() on a SUSPENDED agent with a needs_updated
\* listener, after time has passed: a need has a lower value and the time of
\* the call as last_updated, and the listener is not called.
C40_Witness ==
    /\ last.op = "update_needs" /\ last.prev = SUSPENDED
    /\ local_sensors[last.agent][NEEDS_UPDATED] # <<>>
    /\ \E i \in 1..Len(last.before) :
          /\ needs[last.agent][i].value < last.before[i].value
          /\ needs[last.agent][i].last_updated > last.before[i].last_updated
    /\ Len(emitted) = 1
    /\ log = <<>>

\* C40 witness: process_need_satisfaction() on a SUSPENDED agent with a
\* need_satisfied listener: a matching need has a higher value and is
\* returned, and the listener is not called.
C40_WitnessSatisfied ==
    /\ Satisfying /\ last.prev = SUSPENDED
    /\ local_sensors[last.agent][NEED_SATISFIED] # <<>>
    /\ \E i \in MatchingNeeds :
          /\ needs[last.agent][i].value > last.before[i].value
          /\ last.result[last.before[i].name] = needs[last.agent][i].value
    /\ log = <<>>

====
